---- MODULE Spec2Model ----
(***************************************************************************)
(* State-machine model of the local persistence layer of the portfolio     *)
(* application (class Database, an IndexedDB wrapper).                     *)
(*                                                                         *)
(* Every IndexedDB transaction is one atomic step.  A method that awaits   *)
(* between two transactions is a process with a program counter, so that   *)
(* other calls can run between its transactions.                           *)
(* Albums and essays carry createdAt and updatedAt; the timestamps of the  *)
(* other records and MIME types are not modelled.                          *)
(***************************************************************************)
EXTENDS Integers, Sequences, FiniteSets, TLC

\* ---------------------------------------------------------------- bounds
\* Callers create records while fewer than this many keys have been handed out.
MaxRecords == 3
\* Calls that may be suspended between two transactions at the same time.
MaxProcs == 2
\* Number of exportAll calls in one behaviour.
MaxExports == 1
\* Records created through the FirebaseDatabase facade in one behaviour.
MaxMirrored == 2
\* Times the clock is seen to advance between the calls of a caller of the
\* local Database.
MaxTicks == 2
\* syncLocalToCloud runs started by 'online' events that are in progress at
\* the same time.
MaxPushes == 1
\* Change notifications delivered in one behaviour.
MaxReloads == 2
\* The App is started while fewer than this many videos have been created.
MaxSeeded == 4
\* Albums of the PortfolioApp, photos of one album, essays, files of one
\* upload, and requests it has pending at one time.
MaxAlbums == 2
MaxPhotos == 1
MaxEssays == 1
MaxFiles == 2
MaxPending == 2
\* Saves the PortfolioApp starts in one visit.
MaxSaves == 4

\* ---------------------------------------------------------------- inputs
Names == {"a", "b"}
Blobs == {<< >>, <<72, 105>>}
Urls == {"https://youtu.be/dQw4w9WgXcQ", "https://vimeo.com/897021152",
         "https://example.com/x"}
assetKeys == <<"backgroundImage", "headerLogo", "favicon">>

\* Database.version
version == 1

VARIABLES
    assets,     \* object store 'assets': key -> blob
    albums,     \* object store 'albums': id -> [name, order]
    photos,     \* object store 'photos': id -> [albumId, blob, order]
    essays,     \* object store 'essays': id -> [title, pdfBlob, order]
    videos,     \* object store 'videos': id -> [url, provider, embedId, order]
    nextId,     \* key generators of the four autoIncrement stores
    procs,      \* calls suspended at an await, in call order
    exported,   \* the document returned by the last exportAll (version 0: none)
    source,     \* history: the store contents the last exportAll read
    last,       \* history: the call that completed last, and its outcome
    assigned,   \* history: <<scope, order>> pairs handed out by create calls
    touched,    \* history: scopes that saw anything but sequential creates
    dirty,      \* history: scopes that saw a partial reorder or an overlapped create
    counts,     \* history: number of importAll / exportAll calls so far
    syncEnabled, \* FirebaseDatabase.syncEnabled
    remote,     \* Firestore collections and Storage files: doc id -> document
    now,        \* the next reading of Date.now(), above every local order
    fcall,      \* the FirebaseDatabase call in progress
    flast,      \* history: the FirebaseDatabase call that returned last
    isOnline,   \* FirebaseDatabase.isOnline
    listeners,  \* FirebaseDatabase.listeners: the collections subscribed to
    pushes,     \* syncLocalToCloud runs started by 'online' events, not awaited
    currentTab, \* window.app.currentTab
    reloads,    \* history: the change notifications delivered, with the tab
                \* each one asked to reload ("none": no reload)
    boot,       \* the DOMContentLoaded handler that installs the cloud layer,
                \* window.firebaseReady and which object window.db is
    compress,   \* the Utils.compressImage call in progress or settled last
    isAdminMode, \* App.isAdminMode
    portfolio \* the PortfolioApp of script.js, its IndexedDBStorage and the
              \* requests they have pending

vars == <<assets, albums, photos, essays, videos, nextId, procs, exported,
          source, last, assigned, touched, dirty, counts,
          syncEnabled, remote, now, fcall, flast,
          isOnline, listeners, pushes, currentTab, reloads, boot, compress, isAdminMode, portfolio>>

store == <<assets, albums, photos, essays, videos>>
hist == <<assigned, touched, dirty, counts, source>>
page == <<boot, compress, isAdminMode, portfolio>>
coord == <<isOnline, listeners, pushes, currentTab, reloads, page>>
cloud == <<syncEnabled, remote, now, fcall, flast, coord>>
local == <<assets, albums, photos, essays, videos, nextId, procs, exported,
           last, assigned, touched, dirty, counts, source>>
\* The Database, the FirebaseDatabase and the tab shown.
base == <<syncEnabled, remote, now, fcall, flast, local, isOnline, listeners,
          pushes, currentTab, reloads>>

\* ---------------------------------------------------------------- helpers
Max(S) == CHOOSE x \in S : \A y \in S : y <= x
Range(s) == {s[i] : i \in DOMAIN s}
Remove(s, i) == SubSeq(s, 1, i - 1) \o SubSeq(s, i + 1, Len(s))
Without(f, ids) == [k \in DOMAIN f \ ids |-> f[k]]
With(f, k, v) == [x \in DOMAIN f \cup {k} |-> IF x = k THEN v ELSE f[x]]
SeqsUpTo(S, n) == UNION {[1..k -> S] : k \in 0..n}

\* A scope is the set of records an order value is relative to.
AlbumScope == <<"albums", 0>>
EssayScope == <<"essays", 0>>
VideoScope == <<"videos", 0>>
PhotoScope(albumId) == <<"photos", albumId>>

\* Math.max(...recs.map(r => r.order || 0)), 0 for an empty array.
\* Variants of MaxOrder with a plausible slip each.
MaxOrderZero(recs, ids) == 0
MaxOrderCount(recs, ids) == Cardinality(ids)
MaxOrderOfLast(recs, ids) == IF ids = {} THEN 0 ELSE recs[Max(ids)].order
MaxOrder(recs, ids) ==
    IF ids = {} THEN 0 ELSE Max({recs[i].order : i \in ids})

\* store.getAll() returns records in ascending key order; Array.sort with
\* (a.order || 0) - (b.order || 0) is stable, so ties stay in key order.
RECURSIVE SortByOrder(_, _)
SortByOrder(recs, ids) ==
    IF ids = {} THEN << >>
    ELSE LET first == CHOOSE i \in ids : \A j \in ids :
                          \/ recs[i].order < recs[j].order
                          \/ recs[i].order = recs[j].order /\ i <= j
         IN  <<first>> \o SortByOrder(recs, ids \ {first})

PhotoIdsOf(ps, albumId) == {p \in DOMAIN ps : ps[p].albumId = albumId}

getAllAlbums == SortByOrder(albums, DOMAIN albums)
getAllEssays == SortByOrder(essays, DOMAIN essays)
getAllVideos == SortByOrder(videos, DOMAIN videos)
getPhotosByAlbum(albumId) == SortByOrder(photos, PhotoIdsOf(photos, albumId))

\* parseVideoUrl on the three input urls and the default urls: the YouTube
\* pattern matches youtu.be/<11 chars> and ignores what follows, the Vimeo
\* pattern vimeo.com/<digits>, else null.
parseVideoUrl(url) ==
    CASE url = "https://youtu.be/dQw4w9WgXcQ" ->
             [provider |-> "youtube", embedId |-> "dQw4w9WgXcQ"]
      [] url = "https://vimeo.com/897021152" ->
             [provider |-> "vimeo", embedId |-> "897021152"]
      [] url = "https://youtu.be/6fWYLFodV78?si=faMzDuSLOlI8qURQ" ->
             [provider |-> "youtube", embedId |-> "6fWYLFodV78"]
      [] url = "https://youtu.be/5E3XuSymtYQ?si=Sx8vyJ8vfHPEDMcU" ->
             [provider |-> "youtube", embedId |-> "5E3XuSymtYQ"]
      [] OTHER -> [provider |-> "null", embedId |-> "null"]

\* ---------------------------------------------------------------- history
NoCall == [op |-> "none", scope |-> <<"none", 0>>, id |-> 0, res |-> "ok",
           tags |-> {}, fresh |-> TRUE, overlapped |-> FALSE,
           childFailed |-> FALSE]

\* Marks the suspended creates of a scope whose read is now out of date.
Overlap(ps, scopes) ==
    [i \in DOMAIN ps |->
        IF ps[i].pc = "add" /\ ps[i].scope \in scopes
        THEN [ps[i] EXCEPT !.overlapped = TRUE] ELSE ps[i]]

NoProc == [op |-> "none", pc |-> "none", scope |-> <<"none", 0>>, id |-> 0,
           str |-> "", blob |-> << >>, maxOrder |-> 0, overlapped |-> FALSE,
           todo |-> << >>, tx |-> "none", childFailed |-> FALSE,
           existed |-> FALSE]

Created == (nextId.albums - 1) + (nextId.photos - 1)
           + (nextId.essays - 1) + (nextId.videos - 1)

\* ---------------------------------------------------------------- values
\* What a call hands back to its caller.  A list is a sequence of
\* [id, label, order, blob]; Null is the pdfBlob of an essay whose file
\* could not be fetched.
Null == <<-1>>
Undefined == [kind |-> "undefined", id |-> 0, key |-> "", list |-> << >>,
              blob |-> << >>]
IdValue(id) == [Undefined EXCEPT !.kind = "id", !.id = id]
KeyValue(key) == [Undefined EXCEPT !.kind = "key", !.key = key]
ListValue(list) == [Undefined EXCEPT !.kind = "list", !.list = list]
AssetValue(key, blob) == [Undefined EXCEPT !.kind = "asset", !.key = key,
                             !.blob = blob]
DocumentValue == [Undefined EXCEPT !.kind = "document"]

NoFacadeCall == [op |-> "none", pc |-> "none", id |-> 0, key |-> "",
                 str |-> "", blob |-> << >>, todo |-> << >>,
                 reads |-> 0, writes |-> 0, failed |-> FALSE,
                 local |-> Undefined]
NoFacadeResult == [op |-> "none", res |-> "ok", value |-> Undefined,
                   localRes |-> "ok", localValue |-> Undefined,
                   sync |-> FALSE, reads |-> 0, writes |-> 0,
                   failed |-> FALSE, id |-> 0]

\* window.db = new Database() has run; the DOMContentLoaded handler of the
\* cloud layer has not.
NoBoot == [pc |-> "none", attempts |-> 0, ready |-> FALSE, db |-> "local"]

\* No compressImage call has been made.
\* script.js before DOMContentLoaded: no PortfolioApp.  albums and essays are
\* the arrays in memory, saved the two values in IndexedDB, requests the open,
\* get and put requests in flight, old the arrays of the constructor once
\* loadData has put the loaded ones in their place, saves the number of
\* saves started; failed, early and
\* abandoned record that a put failed, that a handler ran before loadData
\* was done, and that an upload gave up after it had pushed a photo.
NoPortfolio ==
    [pc |-> "none", albums |-> << >>, essays |-> << >>, currentAlbum |-> 0,
     db |-> FALSE, saved |-> [albums |-> << >>, essays |-> << >>],
     requests |-> << >>, loaded |-> << >>,
     old |-> [albums |-> << >>, essays |-> << >>],
     upload |-> [left |-> 0, pushed |-> 0], saves |-> 0,
     failed |-> FALSE, early |-> FALSE, abandoned |-> FALSE]
NoCompress == [pc |-> "none", type |-> "", quality |-> 0, size |-> 0,
               res |-> "none"]

\* ---------------------------------------------------------------- Init
Init ==
    /\ assets = << >>
    /\ albums = << >>
    /\ photos = << >>
    /\ essays = << >>
    /\ videos = << >>
    /\ nextId = [albums |-> 1, photos |-> 1, essays |-> 1, videos |-> 1]
    /\ procs = << >>
    /\ exported = [version |-> 0]
    /\ source = << >>
    /\ last = NoCall
    /\ assigned = {}
    /\ touched = {}
    /\ dirty = {}
    /\ counts = [imports |-> 0, exports |-> 0]
    /\ syncEnabled = FALSE
    /\ remote = [albums |-> << >>, essays |-> << >>, videos |-> << >>,
                 assets |-> << >>, nextDoc |-> 1, deleting |-> {}]
    /\ now = 1000
    /\ fcall = NoFacadeCall
    /\ flast = NoFacadeResult
    /\ isOnline = FALSE
    /\ listeners = {}
    /\ pushes = << >>
    /\ currentTab = "photos"
    /\ reloads = << >>
    /\ boot = NoBoot
    /\ compress = NoCompress
    /\ isAdminMode = FALSE
    /\ portfolio = NoPortfolio

\* ---------------------------------------------------------------- create
\* First half of createAlbum / addPhoto / addEssay / addVideo: the read
\* transaction that determines maxOrder.
CanCall == Len(procs) < MaxProcs /\ Created + Len(procs) < MaxRecords

createAlbumRead(name) ==
    /\ CanCall
    /\ procs' = Append(procs, [NoProc EXCEPT !.op = "createAlbum", !.pc = "add",
                   !.scope = AlbumScope, !.str = name,
                   !.maxOrder = MaxOrder(albums, DOMAIN albums)])
    /\ UNCHANGED <<store, nextId, exported, last, hist>>

\* Second half: store.add in a new transaction.
Complete(i, call, scope, order) ==
    /\ procs' = Overlap(Remove(procs, i), {scope})
    /\ last' = [call EXCEPT !.scope = scope,
                   !.fresh = (<<scope, order>> \notin assigned),
                   !.overlapped = procs[i].overlapped]
    /\ assigned' = assigned \cup {<<scope, order>>}
    /\ touched' = IF procs[i].overlapped THEN touched \cup {scope} ELSE touched
    /\ dirty' = IF procs[i].overlapped THEN dirty \cup {scope} ELSE dirty
    /\ UNCHANGED <<counts, source>>

createAlbumAdd(i) ==
    /\ i \in DOMAIN procs
    /\ procs[i].op = "createAlbum"
    /\ LET id == nextId.albums
           order == procs[i].maxOrder + 1
       IN  /\ albums' = With(albums, id, [name |-> procs[i].str, order |-> order,
                                          createdAt |-> now])
           /\ nextId' = [nextId EXCEPT !.albums = id + 1]
           /\ Complete(i, [NoCall EXCEPT !.op = "createAlbum", !.id = id],
                       AlbumScope, order)
    /\ UNCHANGED <<assets, photos, essays, videos, exported>>

addPhotoRead(albumId, file) ==
    /\ CanCall
    /\ procs' = Append(procs, [NoProc EXCEPT !.op = "addPhoto", !.pc = "add",
                   !.scope = PhotoScope(albumId), !.id = albumId, !.blob = file,
                   !.maxOrder = MaxOrder(photos, PhotoIdsOf(photos, albumId))])
    /\ UNCHANGED <<store, nextId, exported, last, hist>>

addPhotoAdd(i) ==
    /\ i \in DOMAIN procs
    /\ procs[i].op = "addPhoto"
    /\ LET id == nextId.photos
           order == procs[i].maxOrder + 1
       IN  /\ photos' = With(photos, id, [albumId |-> procs[i].id,
                                          blob |-> procs[i].blob, order |-> order])
           /\ nextId' = [nextId EXCEPT !.photos = id + 1]
           /\ Complete(i, [NoCall EXCEPT !.op = "addPhoto", !.id = id],
                       procs[i].scope, order)
    /\ UNCHANGED <<assets, albums, essays, videos, exported>>

addEssayRead(file, title) ==
    /\ CanCall
    /\ procs' = Append(procs, [NoProc EXCEPT !.op = "addEssay", !.pc = "add",
                   !.scope = EssayScope, !.str = title, !.blob = file,
                   !.maxOrder = MaxOrder(essays, DOMAIN essays)])
    /\ UNCHANGED <<store, nextId, exported, last, hist>>

addEssayAdd(i) ==
    /\ i \in DOMAIN procs
    /\ procs[i].op = "addEssay"
    /\ LET id == nextId.essays
           order == procs[i].maxOrder + 1
       IN  /\ essays' = With(essays, id, [title |-> procs[i].str,
                                          pdfBlob |-> procs[i].blob, order |-> order,
                                          createdAt |-> now])
           /\ nextId' = [nextId EXCEPT !.essays = id + 1]
           /\ Complete(i, [NoCall EXCEPT !.op = "addEssay", !.id = id],
                       EssayScope, order)
    /\ UNCHANGED <<assets, albums, photos, videos, exported>>

\* addVideo with a url that parseVideoUrl rejects throws before any await.
addVideoInvalid(url) ==
    /\ parseVideoUrl(url).provider = "null"
    /\ last' = [NoCall EXCEPT !.op = "addVideo", !.scope = VideoScope,
                   !.res = "Invalid video URL"]
    /\ UNCHANGED <<store, nextId, procs, exported, hist>>

addVideoRead(url) ==
    /\ parseVideoUrl(url).provider # "null"
    /\ CanCall
    /\ procs' = Append(procs, [NoProc EXCEPT !.op = "addVideo", !.pc = "add",
                   !.scope = VideoScope, !.str = url,
                   !.maxOrder = MaxOrder(videos, DOMAIN videos)])
    /\ UNCHANGED <<store, nextId, exported, last, hist>>

addVideoAdd(i) ==
    /\ i \in DOMAIN procs
    /\ procs[i].op = "addVideo"
    /\ LET id == nextId.videos
           order == procs[i].maxOrder + 1
           videoInfo == parseVideoUrl(procs[i].str)
       IN  /\ videos' = With(videos, id, [url |-> procs[i].str,
                             provider |-> videoInfo.provider,
                             embedId |-> videoInfo.embedId, order |-> order])
           /\ nextId' = [nextId EXCEPT !.videos = id + 1]
           /\ Complete(i, [NoCall EXCEPT !.op = "addVideo", !.id = id],
                       VideoScope, order)
    /\ UNCHANGED <<assets, albums, photos, essays, exported>>

\* ---------------------------------------------------------------- rename
\* History bookkeeping of a write that is not a create.
Wrote(scopes, partial) ==
    /\ touched' = touched \cup scopes
    /\ dirty' = dirty \cup partial
    /\ UNCHANGED <<assigned, counts, source>>

\* The record that rename puts back: the one it got, with the new name or
\* title and updatedAt = new Date().
Renamed(rec, field, value) ==
    [k \in DOMAIN rec \cup {"updatedAt"} |->
        IF k = field THEN value ELSE IF k = "updatedAt" THEN now ELSE rec[k]]

\* renameAlbum without `if (!album)`: a record is put whatever get found.
RenameAlbumPutsAnyway(id, name) ==
    /\ albums' = With(albums, id,
                      IF id \in DOMAIN albums THEN Renamed(albums[id], "name", name)
                      ELSE [name |-> name, updatedAt |-> now])
    /\ last' = [NoCall EXCEPT !.op = "renameAlbum", !.id = id]
    /\ UNCHANGED <<assets, photos, essays, videos, nextId, procs, exported, hist>>

renameAlbum(id, name) ==
    /\ IF id \in DOMAIN albums
       THEN /\ albums' = [albums EXCEPT ![id] = Renamed(@, "name", name)]
            /\ last' = [NoCall EXCEPT !.op = "renameAlbum", !.id = id]
       ELSE /\ albums' = albums
            /\ last' = [NoCall EXCEPT !.op = "renameAlbum", !.id = id,
                           !.res = "Album not found"]
    /\ UNCHANGED <<assets, photos, essays, videos, nextId, procs, exported, hist>>

renameEssay(id, title) ==
    /\ IF id \in DOMAIN essays
       THEN /\ essays' = [essays EXCEPT ![id] = Renamed(@, "title", title)]
            /\ last' = [NoCall EXCEPT !.op = "renameEssay", !.id = id]
       ELSE /\ essays' = essays
            /\ last' = [NoCall EXCEPT !.op = "renameEssay", !.id = id,
                           !.res = "Essay not found"]
    /\ UNCHANGED <<assets, albums, photos, videos, nextId, procs, exported, hist>>

\* ---------------------------------------------------------------- delete
\* store.delete(key): succeeds whether or not the key exists; requestOk is
\* FALSE when the request fires onerror.
removePhoto(photoId, requestOk) ==
    /\ photos' = IF requestOk THEN Without(photos, {photoId}) ELSE photos
    /\ last' = [NoCall EXCEPT !.op = "removePhoto", !.id = photoId,
                   !.res = IF requestOk THEN "ok" ELSE "RequestError"]
    /\ LET scopes == IF requestOk /\ photoId \in DOMAIN photos
                     THEN {PhotoScope(photos[photoId].albumId)} ELSE {}
       IN  /\ procs' = Overlap(procs, scopes)
           /\ Wrote(scopes, {})
    /\ UNCHANGED <<assets, albums, essays, videos, nextId, exported>>

deleteEssay(id) ==
    /\ essays' = Without(essays, {id})
    /\ last' = [NoCall EXCEPT !.op = "deleteEssay", !.id = id]
    /\ LET scopes == IF id \in DOMAIN essays THEN {EssayScope} ELSE {}
       IN  /\ procs' = Overlap(procs, scopes)
           /\ Wrote(scopes, {})
    /\ UNCHANGED <<assets, albums, photos, videos, nextId, exported>>

deleteVideo(id) ==
    /\ videos' = Without(videos, {id})
    /\ last' = [NoCall EXCEPT !.op = "deleteVideo", !.id = id]
    /\ LET scopes == IF id \in DOMAIN videos THEN {VideoScope} ELSE {}
       IN  /\ procs' = Overlap(procs, scopes)
           /\ Wrote(scopes, {})
    /\ UNCHANGED <<assets, albums, photos, essays, nextId, exported>>

\* State of an IndexedDB transaction once the task that created it has
\* returned to the event loop: with no request placed it has committed.
TransactionState(requestsPlaced, taskEnded) ==
    IF taskEnded /\ requestsPlaced = 0 THEN "finished" ELSE "active"

\* deleteAlbum, up to the first await: opens the ['albums','photos']
\* transaction, places no request on it, and awaits getPhotosByAlbum(id),
\* whose result arrives in a later task.
deleteAlbumRead(id) ==
    /\ Len(procs) < MaxProcs
    /\ procs' = Append(procs, [NoProc EXCEPT !.op = "deleteAlbum", !.pc = "photos",
                   !.id = id, !.todo = getPhotosByAlbum(id),
                   !.tx = TransactionState(0, TRUE),
                   !.existed = (id \in DOMAIN albums)])
    /\ UNCHANGED <<store, nextId, exported, last, hist>>

\* What the for-loop does after `await this.removePhoto(photo.id)`.
AfterRemovePhotoIgnoringError(requestOk) == "next"
AfterRemovePhoto(requestOk) == IF requestOk THEN "next" ELSE "throw"

\* One iteration of the loop over the album's photos.
deleteAlbumRemovePhoto(i, requestOk) ==
    /\ i \in DOMAIN procs
    /\ procs[i].op = "deleteAlbum"
    /\ procs[i].todo # << >>
    /\ LET photoId == Head(procs[i].todo)
           scopes == IF requestOk /\ photoId \in DOMAIN photos
                     THEN {PhotoScope(photos[photoId].albumId)} ELSE {}
       IN  /\ photos' = IF requestOk THEN Without(photos, {photoId}) ELSE photos
           /\ Wrote(scopes, {})
           /\ IF AfterRemovePhoto(requestOk) = "next"
              THEN /\ procs' = Overlap([procs EXCEPT ![i].todo = Tail(@),
                                  ![i].childFailed = @ \/ ~requestOk], scopes)
                   /\ last' = [NoCall EXCEPT !.op = "removePhoto", !.id = photoId,
                                  !.res = IF requestOk THEN "ok" ELSE "RequestError"]
              ELSE /\ procs' = Overlap(Remove(procs, i), scopes)
                   /\ last' = [NoCall EXCEPT !.op = "deleteAlbum",
                                  !.id = procs[i].id, !.res = "RequestError",
                                  !.childFailed = TRUE,
                                  !.tags = {t \in {"existed"} : procs[i].existed}]
    /\ UNCHANGED <<assets, albums, essays, videos, nextId, exported>>

\* After the loop: albumStore.delete(id) on the transaction opened at the
\* start.  On a transaction that is no longer active the call throws
\* TransactionInactiveError inside the promise executor, which rejects.
deleteAlbumDelete(i) ==
    /\ i \in DOMAIN procs
    /\ procs[i].op = "deleteAlbum"
    /\ procs[i].todo = << >>
    /\ LET id == procs[i].id
           done == procs[i].tx = "active"
           scopes == IF done /\ id \in DOMAIN albums THEN {AlbumScope} ELSE {}
       IN  /\ albums' = IF done THEN Without(albums, {id}) ELSE albums
           /\ procs' = Overlap(Remove(procs, i), scopes)
           /\ Wrote(scopes, {})
           /\ last' = [NoCall EXCEPT !.op = "deleteAlbum", !.id = id,
                          !.res = IF done THEN "ok" ELSE "TransactionInactiveError",
                          !.childFailed = procs[i].childFailed,
                          !.tags = {"issued"} \cup
                                   {t \in {"existed"} : procs[i].existed}]
    /\ UNCHANGED <<assets, photos, essays, videos, nextId, exported>>

\* ---------------------------------------------------------------- reorder
\* The puts of a reorder call, in list order, inside its one transaction:
\* a record found by store.get(id) (and, for photos, of the given album)
\* gets order = index; any other id resolves without a write.
RECURSIVE ReorderPuts(_, _, _, _)
ReorderPuts(recs, scopeIds, idsInOrder, index) ==
    IF index >= Len(idsInOrder) THEN recs
    ELSE LET id == idsInOrder[index + 1]
         IN  ReorderPuts(IF id \in scopeIds
                         THEN [recs EXCEPT ![id].order = index] ELSE recs,
                         scopeIds, idsInOrder, index + 1)

\* Variants of Reorder with a plausible slip each.
\* `if (index)`: the put at index 0 is skipped.
ReorderSkipsIndexZero(recs, scopeIds, idsInOrder) ==
    ReorderPuts(recs, scopeIds \ {id \in scopeIds :
                    Len(idsInOrder) > 0 /\ idsInOrder[1] = id}, idsInOrder, 0)
\* The records that are not listed are shifted behind the listed ones.
ReorderShiftsOthers(recs, scopeIds, idsInOrder) ==
    LET put == ReorderPuts(recs, scopeIds, idsInOrder, 0)
    IN  [id \in DOMAIN recs |->
            IF id \in scopeIds \ Range(idsInOrder)
            THEN [put[id] EXCEPT !.order = @ + Len(idsInOrder)] ELSE put[id]]
\* The albumId test of reorderPhotos is dropped.
ReorderAnyScope(recs, scopeIds, idsInOrder) ==
    ReorderPuts(recs, DOMAIN recs, idsInOrder, 0)

Reorder(recs, scopeIds, idsInOrder) == ReorderPuts(recs, scopeIds, idsInOrder, 0)

\* idsInOrder inputs: lists without repetition, no longer than the store has
\* records, of ids in the store and of one id that is in no record.
ReorderInputs(recs, unusedId) ==
    {s \in SeqsUpTo(DOMAIN recs \cup {unusedId}, Cardinality(DOMAIN recs)) :
        \A i, j \in DOMAIN s : i # j => s[i] # s[j]}

\* How a reorder call's list relates to the scope it is applied to.
IsPermutation(idsInOrder, scopeIds) ==
    Range(idsInOrder) = scopeIds /\ Len(idsInOrder) = Cardinality(scopeIds)
ReorderTags(recs, scopeIds, idsInOrder) ==
    {t \in {"permutation"} : IsPermutation(idsInOrder, scopeIds)}
    \cup {t \in {"subset"} : Range(idsInOrder) \subseteq scopeIds
                             /\ Range(idsInOrder) # scopeIds}
    \cup {t \in {"unknown"} : ~(Range(idsInOrder) \subseteq DOMAIN recs)}
    \cup {t \in {"otherScope"} :
               Range(idsInOrder) \cap (DOMAIN recs \ scopeIds) # {}}
    \cup {t \in {"hit"} : Range(idsInOrder) \cap scopeIds # {}}
    \cup {t \in {"twoUntouched"} : Cardinality(scopeIds \ Range(idsInOrder)) >= 2}
    \cup {t \in {"moved"} : SortByOrder(recs, scopeIds) #
                   SortByOrder(Reorder(recs, scopeIds, idsInOrder), scopeIds)}

Reordered(op, scope, recs, scopeIds, idsInOrder) ==
    /\ last' = [NoCall EXCEPT !.op = op, !.scope = scope,
                   !.tags = ReorderTags(recs, scopeIds, idsInOrder)]
    /\ procs' = Overlap(procs, {scope})
    /\ Wrote({scope}, IF scopeIds \subseteq Range(idsInOrder) THEN {} ELSE {scope})

reorderAlbums(idsInOrder) ==
    /\ albums' = Reorder(albums, DOMAIN albums, idsInOrder)
    /\ Reordered("reorderAlbums", AlbumScope, albums, DOMAIN albums, idsInOrder)
    /\ UNCHANGED <<assets, photos, essays, videos, nextId, exported>>

reorderPhotos(albumId, idsInOrder) ==
    /\ photos' = Reorder(photos, PhotoIdsOf(photos, albumId), idsInOrder)
    /\ Reordered("reorderPhotos", PhotoScope(albumId), photos,
                 PhotoIdsOf(photos, albumId), idsInOrder)
    /\ UNCHANGED <<assets, albums, essays, videos, nextId, exported>>

reorderEssays(idsInOrder) ==
    /\ essays' = Reorder(essays, DOMAIN essays, idsInOrder)
    /\ Reordered("reorderEssays", EssayScope, essays, DOMAIN essays, idsInOrder)
    /\ UNCHANGED <<assets, albums, photos, videos, nextId, exported>>

reorderVideos(idsInOrder) ==
    /\ videos' = Reorder(videos, DOMAIN videos, idsInOrder)
    /\ Reordered("reorderVideos", VideoScope, videos, DOMAIN videos, idsInOrder)
    /\ UNCHANGED <<assets, albums, photos, essays, nextId, exported>>

\* ---------------------------------------------------------------- assets
\* store.put: inserts the asset or replaces the one stored under the key.
putAsset(key, file) ==
    /\ assets' = With(assets, key, file)
    /\ last' = [NoCall EXCEPT !.op = "putAsset"]
    /\ UNCHANGED <<albums, photos, essays, videos, nextId, procs, exported, hist>>

\* ---------------------------------------------------------------- codec
\* A blob is its sequence of bytes.  Base64 text is the sequence of its
\* 6-bit digits, with 64 for the padding character '='.
RECURSIVE btoa(_)
btoa(bytes) ==
    IF Len(bytes) = 0 THEN << >>
    ELSE LET n == Len(bytes)
             b1 == bytes[1]
             b2 == IF n >= 2 THEN bytes[2] ELSE 0
             b3 == IF n >= 3 THEN bytes[3] ELSE 0
         IN  << b1 \div 4,
                (b1 % 4) * 16 + b2 \div 16,
                IF n >= 2 THEN (b2 % 16) * 4 + b3 \div 64 ELSE 64,
                IF n >= 3 THEN b3 % 64 ELSE 64 >>
             \o (IF n > 3 THEN btoa(SubSeq(bytes, 4, n)) ELSE << >>)

RECURSIVE atob(_)
atob(base64) ==
    IF Len(base64) < 4 THEN << >>
    ELSE LET c1 == base64[1]
             c2 == base64[2]
             c3 == base64[3]
             c4 == base64[4]
         IN  (IF c3 = 64 THEN << c1 * 4 + c2 \div 16 >>
              ELSE IF c4 = 64
                   THEN << c1 * 4 + c2 \div 16, (c2 % 16) * 16 + c3 \div 4 >>
                   ELSE << c1 * 4 + c2 \div 16, (c2 % 16) * 16 + c3 \div 4,
                           (c3 % 4) * 64 + c4 >>)
             \o atob(SubSeq(base64, 5, Len(base64)))

\* reader.result.split(',')[1]: the text after "data:<mime>;base64,".  For a
\* blob of size 0 the data URL carries no digits (browsers give "data:" or a
\* URL ending in the comma), so the result is undefined or "": << >> here,
\* which is falsy like both.
blobToBase64(blob) == btoa(blob)

\* Variant of base64ToBlob whose copy loop starts at index 1.
base64ToBlobFromOne(base64) ==
    IF atob(base64) = << >> THEN << >> ELSE Tail(atob(base64))
\* byteNumbers[i] = byteCharacters.charCodeAt(i) for every i.
base64ToBlob(base64) ==
    [i \in 1..Len(atob(base64)) |-> atob(base64)[i]]

\* ---------------------------------------------------------------- export
RECURSIVE Flatten(_)
Flatten(ss) == IF ss = << >> THEN << >> ELSE Head(ss) \o Flatten(Tail(ss))

\* The photos of one album as exportAll pushes them.
ExportPhotos(albumId) ==
    LET ids == getPhotosByAlbum(albumId)
    IN  [i \in DOMAIN ids |->
            [id |-> ids[i], albumId |-> albumId, order |-> photos[ids[i]].order,
             data |-> blobToBase64(photos[ids[i]].blob)]]

\* The document exportAll returns, for a caller that makes no other call
\* while exportAll runs (the timestamp is left out).
ExportDocument ==
    [version |-> version,
     assets |-> [key \in Range(assetKeys) \cap DOMAIN assets |->
                    [data |-> blobToBase64(assets[key])]],
     albums |-> [i \in DOMAIN getAllAlbums |->
                    [id |-> getAllAlbums[i], name |-> albums[getAllAlbums[i]].name,
                     order |-> albums[getAllAlbums[i]].order]],
     photos |-> Flatten([i \in DOMAIN getAllAlbums |-> ExportPhotos(getAllAlbums[i])]),
     essays |-> [i \in DOMAIN getAllEssays |->
                    [id |-> getAllEssays[i], title |-> essays[getAllEssays[i]].title,
                     order |-> essays[getAllEssays[i]].order,
                     data |-> blobToBase64(essays[getAllEssays[i]].pdfBlob)]],
     videos |-> [i \in DOMAIN getAllVideos |->
                    [id |-> getAllVideos[i], url |-> videos[getAllVideos[i]].url,
                     provider |-> videos[getAllVideos[i]].provider,
                     embedId |-> videos[getAllVideos[i]].embedId,
                     order |-> videos[getAllVideos[i]].order]]]

exportAll ==
    /\ counts.exports < MaxExports
    /\ exported' = ExportDocument
    /\ source' = store
    /\ counts' = [counts EXCEPT !.exports = @ + 1]
    /\ last' = [NoCall EXCEPT !.op = "exportAll"]
    /\ UNCHANGED <<store, nextId, procs, assigned, touched, dirty>>

\* ---------------------------------------------------------------- import
\* createAlbum / addPhoto / addEssay / addVideo called and awaited one after
\* another: each item gets the next key of its store and the order
\* maxOrder + 1 of its scope (for photos the album, else the whole store).
RECURSIVE AddEach(_, _, _, _)
AddEach(recs, items, id, byAlbum) ==
    IF items = << >> THEN recs
    ELSE LET item == Head(items)
             ids == IF byAlbum THEN PhotoIdsOf(recs, item.albumId) ELSE DOMAIN recs
             rec == [k \in DOMAIN item \cup {"order"} |->
                        IF k = "order" THEN MaxOrder(recs, ids) + 1 ELSE item[k]]
         IN  AddEach(With(recs, id, rec), Tail(items), id + 1, byAlbum)

\* Variant of AlbumIdMap that maps every old album to the first new one.
AlbumIdMapFirst(dataAlbums, newAlbums) ==
    [old \in {dataAlbums[i].id : i \in DOMAIN dataAlbums} |-> newAlbums[1]]
\* albumIdMap[oldAlbum.id] = newAlbums[index].id, where newAlbums[index] exists.
AlbumIdMap(dataAlbums, newAlbums) ==
    LET known == DOMAIN dataAlbums \cap DOMAIN newAlbums
    IN  [old \in {dataAlbums[i].id : i \in known} |->
            newAlbums[Max({i \in known : dataAlbums[i].id = old})]]

\* Variant of clearAllData whose list of stores lacks 'photos'.
clearAllDataButPhotos(storeName, recs) ==
    IF storeName \in {"assets", "albums", "essays", "videos"} THEN << >> ELSE recs
\* transaction.objectStore(storeName).clear() for each of the five stores.
clearAllData(storeName, recs) ==
    IF storeName \in {"assets", "albums", "photos", "essays", "videos"}
    THEN << >> ELSE recs

\* The stores after importAll(data) has cleared them and replayed data, for a
\* caller that makes no other call while importAll runs.  clear() leaves the
\* key generators where they are.  addVideo throws on a url that no longer
\* parses, which ends importAll at that video.
Imported(data) ==
    LET assetKeysKept == {key \in DOMAIN data.assets : data.assets[key].data # << >>}
        albumItems == [i \in DOMAIN data.albums |->
                          [name |-> data.albums[i].name, createdAt |-> now]]
        assets0 == clearAllData("assets", assets)
        albums1 == AddEach(clearAllData("albums", albums), albumItems,
                           nextId.albums, FALSE)
        newAlbums == SortByOrder(albums1, DOMAIN albums1)
        albumIdMap == AlbumIdMap(data.albums, newAlbums)
        photosKept == SelectSeq(data.photos, LAMBDA photo :
                          photo.data # << >> /\ photo.albumId \in DOMAIN albumIdMap)
        photoItems == [i \in DOMAIN photosKept |->
                          [albumId |-> albumIdMap[photosKept[i].albumId],
                           blob |-> base64ToBlob(photosKept[i].data)]]
        essaysKept == SelectSeq(data.essays, LAMBDA essay : essay.data # << >>)
        essayItems == [i \in DOMAIN essaysKept |->
                          [title |-> essaysKept[i].title,
                           pdfBlob |-> base64ToBlob(essaysKept[i].data),
                           createdAt |-> now]]
        invalid == {i \in DOMAIN data.videos :
                       parseVideoUrl(data.videos[i].url).provider = "null"}
        added == IF invalid = {} THEN Len(data.videos)
                 ELSE (CHOOSE i \in invalid : \A j \in invalid : i <= j) - 1
        videoItems == [i \in 1..added |->
                          [url |-> data.videos[i].url,
                           provider |-> parseVideoUrl(data.videos[i].url).provider,
                           embedId |-> parseVideoUrl(data.videos[i].url).embedId]]
    IN  [assets |-> [key \in DOMAIN assets0 \cup assetKeysKept |->
                        IF key \in assetKeysKept
                        THEN base64ToBlob(data.assets[key].data) ELSE assets0[key]],
         albums |-> albums1,
         photos |-> AddEach(clearAllData("photos", photos), photoItems,
                            nextId.photos, TRUE),
         essays |-> AddEach(clearAllData("essays", essays), essayItems,
                            nextId.essays, FALSE),
         videos |-> AddEach(clearAllData("videos", videos), videoItems,
                            nextId.videos, FALSE),
         nextId |-> [albums |-> nextId.albums + Len(albumItems),
                     photos |-> nextId.photos + Len(photoItems),
                     essays |-> nextId.essays + Len(essayItems),
                     videos |-> nextId.videos + added],
         res |-> IF invalid = {} THEN "ok" ELSE "Invalid video URL"]

\* The <<scope, order>> pairs of the records of a store.
OrdersOf(als, phs, ess, vis) ==
    {<<AlbumScope, als[id].order>> : id \in DOMAIN als}
    \cup {<<PhotoScope(phs[id].albumId), phs[id].order>> : id \in DOMAIN phs}
    \cup {<<EssayScope, ess[id].order>> : id \in DOMAIN ess}
    \cup {<<VideoScope, vis[id].order>> : id \in DOMAIN vis}

\* Variant of IncompatibleVersion that only tests that a version is there.
IncompatibleVersionMissingOnly(data) == data.version = 0
\* !data.version || data.version !== this.version; a document without a
\* version field has version 0 here, which is falsy like undefined.
IncompatibleVersion(data) == data.version = 0 \/ data.version # version

importAll(data) ==
    /\ counts' = [counts EXCEPT !.imports = @ + 1]
    /\ IF IncompatibleVersion(data)
       THEN /\ last' = [NoCall EXCEPT !.op = "importAll",
                           !.res = "Incompatible data version"]
            /\ UNCHANGED <<store, nextId, procs, assigned, touched, dirty>>
       ELSE LET new == Imported(data)
                cleared == {s[1] : s \in OrdersOf(albums, photos, essays, videos)}
            IN  /\ assets' = new.assets
                /\ albums' = new.albums
                /\ photos' = new.photos
                /\ essays' = new.essays
                /\ videos' = new.videos
                /\ nextId' = new.nextId
                /\ last' = [NoCall EXCEPT !.op = "importAll", !.res = new.res,
                               !.tags = {t \in {"exported"} : data = exported}]
                /\ procs' = Overlap(procs, {procs[i].scope : i \in DOMAIN procs})
                /\ assigned' = assigned \cup OrdersOf(new.albums, new.photos,
                                                      new.essays, new.videos)
                /\ touched' = touched \cup cleared
                /\ dirty' = dirty
    /\ UNCHANGED <<exported, source>>

\* ================================================================ facade
\* FirebaseDatabase: every call goes to the local Database first; with
\* syncEnabled the mirrored writes are repeated on Firestore / Storage and
\* the reads are tried there first.

\* ---------------------------------------------------------------- lists
\* The lists of the local Database, as values.
LocalAlbums ==
    [i \in DOMAIN getAllAlbums |->
        [id |-> getAllAlbums[i], label |-> albums[getAllAlbums[i]].name,
         order |-> albums[getAllAlbums[i]].order, blob |-> << >>]]
LocalEssays ==
    [i \in DOMAIN getAllEssays |->
        [id |-> getAllEssays[i], label |-> essays[getAllEssays[i]].title,
         order |-> essays[getAllEssays[i]].order,
         blob |-> essays[getAllEssays[i]].pdfBlob]]
LocalVideos ==
    [i \in DOMAIN getAllVideos |->
        [id |-> getAllVideos[i], label |-> videos[getAllVideos[i]].url,
         order |-> videos[getAllVideos[i]].order, blob |-> << >>]]
LocalList(coll) ==
    CASE coll = "albums" -> LocalAlbums
      [] coll = "essays" -> LocalEssays
      [] coll = "videos" -> LocalVideos
\* Database.getAsset: the stored asset, or undefined.
getAsset(key) ==
    IF key \in DOMAIN assets THEN AssetValue(key, assets[key]) ELSE Undefined

\* ---------------------------------------------------------------- remote
\* The Firestore collections the facade mirrors and subscribes to.
Collections == {"albums", "essays", "videos"}
\* Documents of a collection whose localId is the given id.
DocsOf(coll, localId) ==
    {d \in DOMAIN remote[coll] : remote[coll][d].localId = localId}

\* The documents of a collection as the facade lists them: id is
\* data.localId, sorted by order; the documents arrive in id order.
CloudList(coll, fetched) ==
    LET docs == remote[coll]
        ids == SortByOrder(docs, DOMAIN docs)
    IN  [i \in DOMAIN ids |->
            [id |-> docs[ids[i]].localId, label |-> docs[ids[i]].label,
             order |-> docs[ids[i]].order,
             blob |-> IF coll # "essays" THEN << >>
                      ELSE IF ids[i] \in fetched THEN docs[ids[i]].blob
                      ELSE Null]]

\* The caller awaits each facade call before it makes the next.
Quiet == fcall = NoFacadeCall /\ procs = << >>

\* The call returns (res = "ok") or rejects.
Returns(call, res, value, localRes, localValue) ==
    /\ fcall' = NoFacadeCall
    /\ flast' = [op |-> call.op, res |-> res, value |-> value,
                 localRes |-> localRes, localValue |-> localValue,
                 sync |-> syncEnabled, reads |-> call.reads,
                 writes |-> call.writes, failed |-> call.failed,
                 id |-> call.id]

\* ---------------------------------------------------------------- writes
\* What a mirrored write hands back, after the remote step succeeded or was
\* caught (failed), or without a remote step: the creates `return localId`
\* on every path, importAll returns the local result, putAsset and the
\* deletes end without a return value.
ReturnedNothingWhenCaught(op, localValue, failed) ==
    IF op \in {"createAlbum", "addEssay", "addVideo", "importAll"} /\ ~failed
    THEN localValue ELSE Undefined
Returned(op, localValue, failed) ==
    IF op \in {"createAlbum", "addEssay", "addVideo", "importAll"}
    THEN localValue ELSE Undefined

\* The local call resolved: `if (!this.syncEnabled) return ...`, else on to
\* the remote step.
LocalDone(call, localValue) ==
    IF syncEnabled
    THEN /\ fcall' = [call EXCEPT !.pc = "remote", !.local = localValue]
         /\ flast' = flast
    ELSE Returns(call, "ok", Returned(call.op, localValue, FALSE), "ok",
                 localValue)

\* The local call rejected: the await rethrows, the facade call rejects.
LocalFailedThenMirrored(call, error) ==
    fcall' = [call EXCEPT !.pc = "remote"] /\ flast' = flast
LocalFailed(call, error) == Returns(call, error, Undefined, error, Undefined)

\* The try block of a mirrored write ran to its end (ok) or threw into the
\* catch block.
RemoteDone(call, ok) ==
    Returns([call EXCEPT !.failed = ~ok], "ok",
            Returned(call.op, call.local, ~ok), "ok", call.local)

\* addDoc(collection, data): a new document under a generated id.
AddDoc(coll, doc) ==
    remote' = [remote EXCEPT ![coll] = With(@, remote.nextDoc, doc),
                             !.nextDoc = @ + 1]

Firebase_createAlbum(name) ==
    /\ Quiet
    /\ createAlbumRead(name)
    /\ fcall' = [NoFacadeCall EXCEPT !.op = "createAlbum", !.pc = "local",
                    !.str = name]
    /\ UNCHANGED <<syncEnabled, remote, now, flast>>
    /\ UNCHANGED coord

Firebase_createAlbum_local ==
    /\ fcall.op = "createAlbum" /\ fcall.pc = "local"
    /\ createAlbumAdd(1)
    /\ LocalDone([fcall EXCEPT !.id = last'.id], IdValue(last'.id))
    /\ UNCHANGED <<syncEnabled, remote, now>>
    /\ UNCHANGED coord

Firebase_createAlbum_remote(ok) ==
    /\ fcall.op = "createAlbum" /\ fcall.pc = "remote"
    /\ IF ok
       THEN /\ AddDoc("albums", [localId |-> fcall.id, label |-> fcall.str,
                                 order |-> now, blob |-> << >>])
            /\ now' = now + 1
       ELSE UNCHANGED <<remote, now>>
    /\ RemoteDone([fcall EXCEPT !.writes = @ + 1], ok)
    /\ UNCHANGED <<syncEnabled, local>>
    /\ UNCHANGED coord

\* localDb.addVideo throws on a url that does not parse, before its first
\* await; otherwise it reads maxOrder and adds the record.
Firebase_addVideo(url) ==
    /\ Quiet
    /\ LET call == [NoFacadeCall EXCEPT !.op = "addVideo", !.pc = "local",
                       !.str = url]
       IN  \/ /\ addVideoInvalid(url)
              /\ LocalFailed(call, last'.res)
           \/ /\ addVideoRead(url)
              /\ fcall' = call
              /\ flast' = flast
    /\ UNCHANGED <<syncEnabled, remote, now>>
    /\ UNCHANGED coord

Firebase_addVideo_local ==
    /\ fcall.op = "addVideo" /\ fcall.pc = "local"
    /\ addVideoAdd(1)
    /\ LocalDone([fcall EXCEPT !.id = last'.id], IdValue(last'.id))
    /\ UNCHANGED <<syncEnabled, remote, now>>
    /\ UNCHANGED coord

Firebase_addVideo_remote(ok) ==
    /\ fcall.op = "addVideo" /\ fcall.pc = "remote"
    /\ IF ok
       THEN /\ AddDoc("videos", [localId |-> fcall.id, label |-> fcall.str,
                                 order |-> now, blob |-> << >>])
            /\ now' = now + 1
       ELSE UNCHANGED <<remote, now>>
    /\ RemoteDone([fcall EXCEPT !.writes = @ + 1], ok)
    /\ UNCHANGED <<syncEnabled, local>>
    /\ UNCHANGED coord

Firebase_addEssay(file, title) ==
    /\ Quiet
    /\ addEssayRead(file, title)
    /\ fcall' = [NoFacadeCall EXCEPT !.op = "addEssay", !.pc = "local",
                    !.str = title, !.blob = file]
    /\ UNCHANGED <<syncEnabled, remote, now, flast>>
    /\ UNCHANGED coord

Firebase_addEssay_local ==
    /\ fcall.op = "addEssay" /\ fcall.pc = "local"
    /\ addEssayAdd(1)
    /\ LocalDone([fcall EXCEPT !.id = last'.id], IdValue(last'.id))
    /\ UNCHANGED <<syncEnabled, remote, now>>
    /\ UNCHANGED coord

\* uploadBytes, getDownloadURL and addDoc: the document is there when all
\* three succeeded.
Firebase_addEssay_remote(ok) ==
    /\ fcall.op = "addEssay" /\ fcall.pc = "remote"
    /\ IF ok
       THEN /\ AddDoc("essays", [localId |-> fcall.id, label |-> fcall.str,
                                 order |-> now, blob |-> fcall.blob])
            /\ now' = now + 1
       ELSE UNCHANGED <<remote, now>>
    /\ RemoteDone([fcall EXCEPT !.writes = @ + 1], ok)
    /\ UNCHANGED <<syncEnabled, local>>
    /\ UNCHANGED coord

\* putAsset: the local put, then uploadBytes, getDownloadURL and
\* setDoc(assets/key).
Firebase_putAsset(key, file) ==
    /\ Quiet
    /\ putAsset(key, file)
    /\ LocalDone([NoFacadeCall EXCEPT !.op = "putAsset", !.key = key,
                     !.blob = file], KeyValue(key))
    /\ UNCHANGED <<syncEnabled, remote, now>>
    /\ UNCHANGED coord

Firebase_putAsset_remote(ok) ==
    /\ fcall.op = "putAsset" /\ fcall.pc = "remote"
    /\ remote' = IF ok THEN [remote EXCEPT !.assets = With(@, fcall.key, fcall.blob)]
                 ELSE remote
    /\ RemoteDone([fcall EXCEPT !.writes = @ + 1], ok)
    /\ UNCHANGED <<syncEnabled, now, local>>
    /\ UNCHANGED coord

\* ---------------------------------------------------------------- deletes
\* getDocs(query(where('localId', '==', id))) and, for each document found,
\* a deleteDoc that is started and not awaited.
DeleteRemote(coll, ok) ==
    LET found == {<<coll, d>> : d \in DocsOf(coll, fcall.id)}
    IN  /\ remote' = IF ok THEN [remote EXCEPT !.deleting = @ \cup found]
                     ELSE remote
        /\ RemoteDone([fcall EXCEPT !.reads = @ + 1,
                          !.writes = IF ok THEN @ + Cardinality(found) ELSE @],
                      ok)
        /\ UNCHANGED <<syncEnabled, now, local>>

\* A deleteDoc started by a delete comes back: the document is gone, or the
\* request failed and its rejection reaches no one.
deleteDoc(coll, d, ok) ==
    /\ <<coll, d>> \in remote.deleting
    /\ remote' = [remote EXCEPT !.deleting = @ \ {<<coll, d>>},
                     ![coll] = IF ok THEN Without(@, {d}) ELSE @]
    /\ UNCHANGED <<syncEnabled, now, fcall, flast, local>>
    /\ UNCHANGED coord

Firebase_deleteVideo(id) ==
    /\ Quiet
    /\ deleteVideo(id)
    /\ LocalDone([NoFacadeCall EXCEPT !.op = "deleteVideo", !.id = id],
                 Undefined)
    /\ UNCHANGED <<syncEnabled, remote, now>>
    /\ UNCHANGED coord

Firebase_deleteVideo_remote(ok) ==
    /\ fcall.op = "deleteVideo" /\ fcall.pc = "remote"
    /\ DeleteRemote("videos", ok)
    /\ UNCHANGED coord

Firebase_deleteEssay(id) ==
    /\ Quiet
    /\ deleteEssay(id)
    /\ LocalDone([NoFacadeCall EXCEPT !.op = "deleteEssay", !.id = id],
                 Undefined)
    /\ UNCHANGED <<syncEnabled, remote, now>>
    /\ UNCHANGED coord

Firebase_deleteEssay_remote(ok) ==
    /\ fcall.op = "deleteEssay" /\ fcall.pc = "remote"
    /\ DeleteRemote("essays", ok)
    /\ UNCHANGED coord

\* deleteAlbum: the local call runs through its loop and its delete; the
\* remote step is reached only if it resolved.
Firebase_deleteAlbum(id) ==
    /\ Quiet
    /\ deleteAlbumRead(id)
    /\ fcall' = [NoFacadeCall EXCEPT !.op = "deleteAlbum", !.pc = "local",
                    !.id = id]
    /\ UNCHANGED <<syncEnabled, remote, now, flast>>
    /\ UNCHANGED coord

Firebase_deleteAlbum_removePhoto(requestOk) ==
    /\ fcall.op = "deleteAlbum" /\ fcall.pc = "local"
    /\ deleteAlbumRemovePhoto(1, requestOk)
    /\ IF procs' = << >>
       THEN LocalFailed(fcall, last'.res)
       ELSE UNCHANGED <<fcall, flast>>
    /\ UNCHANGED <<syncEnabled, remote, now>>
    /\ UNCHANGED coord

Firebase_deleteAlbum_local ==
    /\ fcall.op = "deleteAlbum" /\ fcall.pc = "local"
    /\ deleteAlbumDelete(1)
    /\ IF last'.res = "ok"
       THEN LocalDone(fcall, Undefined)
       ELSE LocalFailed(fcall, last'.res)
    /\ UNCHANGED <<syncEnabled, remote, now>>
    /\ UNCHANGED coord

Firebase_deleteAlbum_remote(ok) ==
    /\ fcall.op = "deleteAlbum" /\ fcall.pc = "remote"
    /\ DeleteRemote("albums", ok)
    /\ UNCHANGED coord

\* ---------------------------------------------------------------- bulk push
\* syncLocalToCloud: the local albums, essays and videos, each pushed by
\* its sync*ToCloud; an item is <<collection, local id>>.
PushItems ==
    [i \in DOMAIN getAllAlbums |-> <<"albums", getAllAlbums[i]>>]
    \o [i \in DOMAIN getAllEssays |-> <<"essays", getAllEssays[i]>>]
    \o [i \in DOMAIN getAllVideos |-> <<"videos", getAllVideos[i]>>]

\* The call that awaited syncLocalToCloud goes on: importAll returns the
\* local result, enableCloudSync sets the listeners up and returns.
Pushed(call) ==
    IF call.todo = << >>
    THEN /\ Returns([call EXCEPT !.pc = "none"], "ok",
                    Returned(call.op, call.local, call.failed), "ok",
                    call.local)
         /\ listeners' = IF call.op = "init" THEN Collections ELSE listeners
    ELSE fcall' = [call EXCEPT !.pc = "query"] /\ flast' = flast
         /\ listeners' = listeners

syncLocalToCloud ==
    /\ fcall.pc = "sync"
    /\ Pushed([fcall EXCEPT !.todo = PushItems])
    /\ UNCHANGED <<syncEnabled, remote, now, local>>
    /\ UNCHANGED <<isOnline, pushes, currentTab, reloads>>
    /\ UNCHANGED page

\* The record a sync*ToCloud was given, as the document it adds:
\* `order: album.order || Date.now()`.
PushDocOf(coll, id, rec) ==
    [localId |-> id,
     label |-> CASE coll = "albums" -> rec.name
                 [] coll = "essays" -> rec.title
                 [] coll = "videos" -> rec.url,
     order |-> IF rec.order # 0 THEN rec.order ELSE now,
     blob |-> IF coll = "essays" THEN rec.pdfBlob ELSE << >>]
\* The record of the local store that the lists of syncLocalToCloud hold.
Stored(coll, id) ==
    CASE coll = "albums" -> albums[id]
      [] coll = "essays" -> essays[id]
      [] coll = "videos" -> videos[id]
PushDoc(coll, id) == PushDocOf(coll, id, Stored(coll, id))

\* sync*ToCloud up to its addDoc: the query by localId; the item is left
\* alone when the query fails, when a document is found, and for an essay
\* whose pdfBlob is falsy.
syncToCloud_query(ok) ==
    /\ fcall.pc = "query"
    /\ LET coll == Head(fcall.todo)[1]
           id == Head(fcall.todo)[2]
           call == [fcall EXCEPT !.reads = @ + 1, !.failed = @ \/ ~ok]
           add == /\ ok
                  /\ DocsOf(coll, id) = {}
                  /\ coll = "essays" => essays[id].pdfBlob # << >>
       IN  IF add
           THEN /\ fcall' = [call EXCEPT !.pc = "add"]
                /\ UNCHANGED <<flast, listeners>>
           ELSE Pushed([call EXCEPT !.todo = Tail(@)])
    /\ UNCHANGED <<syncEnabled, remote, now, local>>
    /\ UNCHANGED <<isOnline, pushes, currentTab, reloads>>
    /\ UNCHANGED page

syncToCloud_add(ok) ==
    /\ fcall.pc = "add"
    /\ LET coll == Head(fcall.todo)[1]
           id == Head(fcall.todo)[2]
           doc == PushDoc(coll, id)
       IN  /\ IF ok THEN AddDoc(coll, doc) ELSE remote' = remote
           /\ now' = IF ok /\ doc.order = now THEN now + 1 ELSE now
           /\ Pushed([fcall EXCEPT !.todo = Tail(@), !.writes = @ + 1,
                         !.failed = @ \/ ~ok])
    /\ UNCHANGED <<syncEnabled, local>>
    /\ UNCHANGED <<isOnline, pushes, currentTab, reloads>>
    /\ UNCHANGED page

\* importAll: the local import, then the bulk push when sync is enabled.
Firebase_importAll(data) ==
    /\ Quiet
    /\ importAll(data)
    /\ LET call == [NoFacadeCall EXCEPT !.op = "importAll"]
       IN  IF last'.res # "ok" THEN LocalFailed(call, last'.res)
           ELSE IF syncEnabled
           THEN fcall' = [call EXCEPT !.pc = "sync"] /\ flast' = flast
           ELSE Returns(call, "ok", Returned("importAll", Undefined, FALSE),
                        "ok", Undefined)
    /\ UNCHANGED <<syncEnabled, remote, now>>
    /\ UNCHANGED coord

\* enableCloudSync without its catch: sync stays enabled, the push runs and
\* the listeners are set up although the test read failed.
InitIgnoresProbe(onLine, ok) ==
    /\ Quiet
    /\ isOnline' = onLine
    /\ listeners' = {}
    /\ pushes' = << >>
    /\ currentTab' = "photos"
    /\ syncEnabled' = onLine
    /\ fcall' = [NoFacadeCall EXCEPT !.op = "init", !.pc = "sync",
                    !.reads = 1, !.failed = onLine /\ ~ok]
    /\ UNCHANGED <<flast, remote, now, local, reloads>>
    /\ UNCHANGED page

\* A page load: the constructor (isOnline = navigator.onLine, syncEnabled =
\* false, no listeners; what the page before left running is gone), the
\* App with its first tab, and init, which calls enableCloudSync when the
\* browser is online; its test read decides whether sync is enabled and
\* the bulk push starts.
Firebase_init(onLine, ok) ==
    /\ Quiet
    /\ isOnline' = onLine
    /\ listeners' = {}
    /\ pushes' = << >>
    /\ currentTab' = "photos"
    /\ syncEnabled' = (onLine /\ ok)
    /\ LET call == [NoFacadeCall EXCEPT !.op = "init",
                       !.reads = IF onLine THEN 1 ELSE 0,
                       !.failed = onLine /\ ~ok]
       IN  IF onLine /\ ok
           THEN fcall' = [call EXCEPT !.pc = "sync"] /\ flast' = flast
           ELSE Returns(call, "ok", Undefined, "ok", Undefined)
    /\ UNCHANGED <<remote, now, local, reloads>>
    /\ UNCHANGED page

\* ---------------------------------------------------------------- reads
\* A read passthrough that is a single call of the local Database.
ReadLocal(op, value) ==
    Returns([NoFacadeCall EXCEPT !.op = op], "ok", value, "ok", value)

\* getAllAlbums / getAllEssays / getAllVideos: with sync enabled getDocs on
\* the collection, whose documents are returned sorted by order; when it
\* throws, and with sync disabled, the local list.  getAllEssays fetches
\* the file of each document inside a try/catch of its own: fetched are the
\* documents whose fetch succeeded.
GetAll(op, coll, ok, fetched) ==
    /\ Quiet
    /\ LET fetches == IF coll = "essays" /\ ok
                      THEN Cardinality(DOMAIN remote[coll]) ELSE 0
           call == [NoFacadeCall EXCEPT !.op = op,
                       !.reads = IF syncEnabled THEN 1 + fetches ELSE 0,
                       !.failed = syncEnabled /\
                                  (~ok \/ (coll = "essays" /\
                                           fetched # DOMAIN remote[coll]))]
       IN  Returns(call, "ok",
                   IF syncEnabled /\ ok THEN ListValue(CloudList(coll, fetched))
                   ELSE ListValue(LocalList(coll)),
                   "ok", ListValue(LocalList(coll)))
    /\ UNCHANGED <<syncEnabled, remote, now, local>>

Firebase_getAllAlbums(ok) == GetAll("getAllAlbums", "albums", ok, {})
    /\ UNCHANGED coord
Firebase_getAllVideos(ok) == GetAll("getAllVideos", "videos", ok, {})
    /\ UNCHANGED coord
Firebase_getAllEssays(ok, fetched) ==
    /\ fetched \subseteq DOMAIN remote.essays
    /\ GetAll("getAllEssays", "essays", ok, fetched)
    /\ UNCHANGED coord

\* getAsset: with sync enabled getDoc(assets/key); if the document exists
\* its file is fetched, stored in the local Database and returned.  A
\* missing document, a throw of getDoc ("getDoc") or of the fetch
\* ("fetch"), and sync disabled all end in the local getAsset.
Firebase_getAsset(key, outcome) ==
    /\ Quiet
    /\ LET exists == key \in DOMAIN remote.assets
           cloud_ == syncEnabled /\ outcome = "ok" /\ exists
           call == [NoFacadeCall EXCEPT !.op = "getAsset", !.key = key,
                       !.reads = IF ~syncEnabled THEN 0
                                 ELSE IF outcome # "getDoc" /\ exists THEN 2
                                 ELSE 1,
                       !.failed = syncEnabled /\
                                  (outcome = "getDoc" \/
                                   (outcome = "fetch" /\ exists))]
       IN  IF cloud_
           THEN /\ putAsset(key, remote.assets[key])
                /\ Returns(call, "ok", AssetValue(key, remote.assets[key]),
                           "ok", getAsset(key))
           ELSE /\ Returns(call, "ok", getAsset(key), "ok", getAsset(key))
                /\ UNCHANGED local
    /\ UNCHANGED <<syncEnabled, remote, now>>
    /\ UNCHANGED coord

\* ---------------------------------------------------------------- passthroughs
\* `return await this.localDb.<method>(...)`: the local call and nothing
\* else; the two-step creates return at their second step.
Passthrough(op) ==
    /\ Returns([NoFacadeCall EXCEPT !.op = op, !.id = last'.id], last'.res,
               IF last'.res = "ok" /\ op = "addPhoto" THEN IdValue(last'.id)
               ELSE Undefined,
               last'.res,
               IF last'.res = "ok" /\ op = "addPhoto" THEN IdValue(last'.id)
               ELSE Undefined)
    /\ UNCHANGED <<syncEnabled, remote, now>>

Firebase_renameAlbum(id, name) == Quiet /\ renameAlbum(id, name) /\ Passthrough("renameAlbum")
    /\ UNCHANGED coord
Firebase_renameEssay(id, title) == Quiet /\ renameEssay(id, title) /\ Passthrough("renameEssay")
    /\ UNCHANGED coord
Firebase_reorderAlbums(idsInOrder) ==
    Quiet /\ reorderAlbums(idsInOrder) /\ Passthrough("reorderAlbums")
    /\ UNCHANGED coord
Firebase_reorderPhotos(albumId, idsInOrder) ==
    Quiet /\ reorderPhotos(albumId, idsInOrder) /\ Passthrough("reorderPhotos")
    /\ UNCHANGED coord
Firebase_reorderEssays(idsInOrder) ==
    Quiet /\ reorderEssays(idsInOrder) /\ Passthrough("reorderEssays")
    /\ UNCHANGED coord
Firebase_reorderVideos(idsInOrder) ==
    Quiet /\ reorderVideos(idsInOrder) /\ Passthrough("reorderVideos")
    /\ UNCHANGED coord
Firebase_removePhoto(photoId, requestOk) ==
    Quiet /\ removePhoto(photoId, requestOk) /\ Passthrough("removePhoto")
    /\ UNCHANGED coord
Firebase_addPhoto(albumId, file) ==
    /\ Quiet
    /\ addPhotoRead(albumId, file)
    /\ fcall' = [NoFacadeCall EXCEPT !.op = "addPhoto", !.pc = "local"]
    /\ UNCHANGED <<syncEnabled, remote, now, flast>>
    /\ UNCHANGED coord
Firebase_addPhoto_local ==
    /\ fcall.op = "addPhoto" /\ fcall.pc = "local"
    /\ addPhotoAdd(1)
    /\ Passthrough("addPhoto")
    /\ UNCHANGED coord
Firebase_getPhotosByAlbum(albumId) ==
    /\ Quiet
    /\ ReadLocal("getPhotosByAlbum",
           ListValue([i \in DOMAIN getPhotosByAlbum(albumId) |->
               [id |-> getPhotosByAlbum(albumId)[i], label |-> "",
                order |-> photos[getPhotosByAlbum(albumId)[i]].order,
                blob |-> photos[getPhotosByAlbum(albumId)[i]].blob]]))
    /\ UNCHANGED <<syncEnabled, remote, now, local>>
    /\ UNCHANGED coord
Firebase_exportAll ==
    /\ Quiet
    /\ exportAll
    /\ Returns([NoFacadeCall EXCEPT !.op = "exportAll"], "ok", DocumentValue,
               "ok", DocumentValue)
    /\ UNCHANGED <<syncEnabled, remote, now>>
    /\ UNCHANGED coord

\* ---------------------------------------------------------------- coordinator
\* window 'online': isOnline = true and syncLocalToCloud(), which is not
\* awaited; it returns at once when sync is not enabled and is suspended at
\* its first await otherwise.  History: `second` says that the run starts
\* when the push of init has completed without a failure and no call has
\* been made since.
online ==
    /\ syncEnabled => Len(pushes) < MaxPushes
    /\ isOnline' = TRUE
    /\ pushes' = IF syncEnabled
                 THEN Append(pushes,
                             [pc |-> "sync", todo |-> << >>,
                              second |-> Quiet /\ flast.op = "init"
                                              /\ ~flast.failed])
                 ELSE pushes
    /\ UNCHANGED <<syncEnabled, remote, now, fcall, flast, local, listeners,
                   currentTab, reloads>>
    /\ UNCHANGED page

\* window 'offline': isOnline = false.
offline ==
    /\ isOnline' = FALSE
    /\ UNCHANGED <<syncEnabled, remote, now, fcall, flast, local, listeners,
                   pushes, currentTab, reloads>>
    /\ UNCHANGED page

\* A run of syncLocalToCloud that has pushed its last item is over.
PushedOn(i, run) ==
    pushes' = IF run.todo = << >> THEN Remove(pushes, i)
              ELSE [pushes EXCEPT ![i] = [run EXCEPT !.pc = "query"]]

\* The steps of a run started by 'online': the local lists, whose records
\* the run holds from then on, then for each item the query by localId and,
\* when it found nothing, the addDoc.
online_syncLocalToCloud(i) ==
    /\ i \in DOMAIN pushes /\ pushes[i].pc = "sync"
    /\ PushedOn(i, [pushes[i] EXCEPT !.todo =
           [k \in DOMAIN PushItems |->
               <<PushItems[k][1], PushItems[k][2],
                 Stored(PushItems[k][1], PushItems[k][2])>>]])
    /\ UNCHANGED <<syncEnabled, remote, now, fcall, flast, local, isOnline,
                   listeners, currentTab, reloads>>
    /\ UNCHANGED page

\* sync*ToCloud without `if (querySnapshot.empty)`.
PushWithoutLookingAtQuery(i, ok) ==
    /\ i \in DOMAIN pushes /\ pushes[i].pc = "query"
    /\ pushes' = [pushes EXCEPT ![i].pc = "add"]
    /\ UNCHANGED <<syncEnabled, remote, now, fcall, flast, local, isOnline,
                   listeners, currentTab, reloads>>
    /\ UNCHANGED page

online_syncToCloud_query(i, ok) ==
    /\ i \in DOMAIN pushes /\ pushes[i].pc = "query"
    /\ LET coll == Head(pushes[i].todo)[1]
           id == Head(pushes[i].todo)[2]
           add == /\ ok
                  /\ DocsOf(coll, id) = {}
                  /\ coll = "essays" => Head(pushes[i].todo)[3].pdfBlob # << >>
       IN  IF add
           THEN pushes' = [pushes EXCEPT ![i].pc = "add"]
           ELSE PushedOn(i, [pushes[i] EXCEPT !.todo = Tail(@)])
    /\ UNCHANGED <<syncEnabled, remote, now, fcall, flast, local, isOnline,
                   listeners, currentTab, reloads>>
    /\ UNCHANGED page

online_syncToCloud_add(i, ok) ==
    /\ i \in DOMAIN pushes /\ pushes[i].pc = "add"
    /\ LET coll == Head(pushes[i].todo)[1]
           id == Head(pushes[i].todo)[2]
           doc == PushDocOf(coll, id, Head(pushes[i].todo)[3])
       IN  /\ IF ok THEN AddDoc(coll, doc) ELSE remote' = remote
           /\ now' = IF ok /\ doc.order = now THEN now + 1 ELSE now
           /\ PushedOn(i, [pushes[i] EXCEPT !.todo = Tail(@)])
    /\ UNCHANGED <<syncEnabled, fcall, flast, local, isOnline, listeners,
                   currentTab, reloads>>
    /\ UNCHANGED page

\* App.switchTab: currentTab = tabName, and the tab is loaded.
Tabs == {"photos", "essays", "video"}
switchTab(tabName) ==
    /\ currentTab' = tabName
    /\ UNCHANGED <<syncEnabled, remote, now, fcall, flast, local, isOnline,
                   listeners, pushes, reloads>>
    /\ UNCHANGED page

\* A subscription delivers one change of its collection to its handler,
\* which calls the load of its tab when that tab is the current one.
Delivered(coll, tab) ==
    /\ coll \in listeners
    /\ Len(reloads) < MaxReloads
    /\ reloads' = Append(reloads, [coll |-> coll, tab |-> tab])
    /\ UNCHANGED <<syncEnabled, remote, now, fcall, flast, local, isOnline,
                   listeners, pushes, currentTab>>
    /\ UNCHANGED page
handleRealtimeAlbumChange ==
    Delivered("albums", IF currentTab = "photos" THEN "photos" ELSE "none")
handleRealtimeEssayChange ==
    Delivered("essays", IF currentTab = "essays" THEN "essays" ELSE "none")
\* The handler without its test of currentTab.
VideoChangeReloadsAnyTab == Delivered("videos", "video")
handleRealtimeVideoChange ==
    Delivered("videos", IF currentTab = "video" THEN "video" ELSE "none")

\* ---------------------------------------------------------------- Next
AlbumIdInputs == 1..nextId.albums

\* Ordering of albums and of the photos of an album, with calls overlapping
\* at their awaits.
NextAlbums ==
    \/ \E name \in {"a"} : createAlbumRead(name) /\ UNCHANGED cloud
    \/ \E i \in 1..MaxProcs : createAlbumAdd(i) /\ UNCHANGED cloud
    \/ \E albumId \in AlbumIdInputs, file \in {<<72, 105>>} : addPhotoRead(albumId, file) /\ UNCHANGED cloud
    \/ \E i \in 1..MaxProcs : addPhotoAdd(i) /\ UNCHANGED cloud
    \/ \E photoId \in 1..nextId.photos, requestOk \in BOOLEAN :
           removePhoto(photoId, requestOk) /\ UNCHANGED cloud
    \/ \E idsInOrder \in ReorderInputs(albums, nextId.albums) : reorderAlbums(idsInOrder) /\ UNCHANGED cloud
    \/ \E albumId \in AlbumIdInputs, idsInOrder \in ReorderInputs(photos, nextId.photos) :
           reorderPhotos(albumId, idsInOrder) /\ UNCHANGED cloud

SpecAlbums == Init /\ [][NextAlbums]_vars

\* Albums, photos and the cascading delete, with calls overlapping at their
\* awaits.
NextCascade ==
    \/ \E name \in {"a"} : createAlbumRead(name) /\ UNCHANGED cloud
    \/ \E i \in 1..MaxProcs : createAlbumAdd(i) /\ UNCHANGED cloud
    \/ \E albumId \in AlbumIdInputs, file \in {<<72, 105>>} : addPhotoRead(albumId, file) /\ UNCHANGED cloud
    \/ \E i \in 1..MaxProcs : addPhotoAdd(i) /\ UNCHANGED cloud
    \/ \E photoId \in 1..nextId.photos, requestOk \in BOOLEAN :
           removePhoto(photoId, requestOk) /\ UNCHANGED cloud
    \/ \E id \in AlbumIdInputs : deleteAlbumRead(id) /\ UNCHANGED cloud
    \/ \E i \in 1..MaxProcs, requestOk \in BOOLEAN : deleteAlbumRemovePhoto(i, requestOk) /\ UNCHANGED cloud
    \/ \E i \in 1..MaxProcs : deleteAlbumDelete(i) /\ UNCHANGED cloud

SpecCascade == Init /\ [][NextCascade]_vars

\* Essays and videos, with calls overlapping at their awaits.
NextEssaysVideos ==
    \/ \E file \in {<<72, 105>>}, title \in {"a"} : addEssayRead(file, title) /\ UNCHANGED cloud
    \/ \E i \in 1..MaxProcs : addEssayAdd(i) /\ UNCHANGED cloud
    \/ \E url \in Urls : addVideoInvalid(url) /\ UNCHANGED cloud
    \/ \E url \in Urls : addVideoRead(url) /\ UNCHANGED cloud
    \/ \E i \in 1..MaxProcs : addVideoAdd(i) /\ UNCHANGED cloud
    \/ \E id \in 1..nextId.essays : deleteEssay(id) /\ UNCHANGED cloud
    \/ \E id \in 1..nextId.videos : deleteVideo(id) /\ UNCHANGED cloud
    \/ \E idsInOrder \in ReorderInputs(essays, nextId.essays) : reorderEssays(idsInOrder) /\ UNCHANGED cloud
    \/ \E idsInOrder \in ReorderInputs(videos, nextId.videos) : reorderVideos(idsInOrder) /\ UNCHANGED cloud

SpecEssaysVideos == Init /\ [][NextEssaysVideos]_vars

\* Backup and restore, for a caller that awaits each call before the next.
AssetKeyInputs == {"favicon"}
\* Photos reach addPhoto through Utils.compressImage, whose canvas blob has
\* bytes in it; essays and assets are stored as the file the user picked.
PhotoBlobs == {<<72, 105>>, <<255, 216, 255>>}
\* The documents importAll is given: the exported one, the same with another
\* version or with none (0), the same with the url of one video replaced by
\* one that no longer parses, and the export of an empty store.
EmptyDocument ==
    [version |-> version, assets |-> << >>, albums |-> << >>, photos |-> << >>,
     essays |-> << >>, videos |-> << >>]
ImportInputs ==
    {exported, [exported EXCEPT !.version = version + 1],
     [exported EXCEPT !.version = 0], EmptyDocument}
    \cup {[exported EXCEPT !.videos[i].url = "https://example.com/x"] :
              i \in DOMAIN exported.videos}
\* The caller fills the store, exports it, and restores a document right
\* after that; it calls nothing after its last restore.
Restoring == procs = << >> /\ counts.imports < counts.exports
Idle == procs = << >> /\ counts.imports = counts.exports
        /\ counts.exports < MaxExports

NextBackup ==
    \/ Idle /\ \E name \in Names : createAlbumRead(name) /\ UNCHANGED cloud
    \/ \E i \in 1..MaxProcs : createAlbumAdd(i) /\ UNCHANGED cloud
    \/ Idle /\ \E albumId \in AlbumIdInputs, file \in PhotoBlobs :
                   addPhotoRead(albumId, file) /\ UNCHANGED cloud
    \/ \E i \in 1..MaxProcs : addPhotoAdd(i) /\ UNCHANGED cloud
    \/ Idle /\ \E file \in Blobs, title \in {"a"} : addEssayRead(file, title) /\ UNCHANGED cloud
    \/ \E i \in 1..MaxProcs : addEssayAdd(i) /\ UNCHANGED cloud
    \/ Idle /\ \E url \in Urls : addVideoRead(url) /\ UNCHANGED cloud
    \/ \E i \in 1..MaxProcs : addVideoAdd(i) /\ UNCHANGED cloud
    \/ Idle /\ \E key \in AssetKeyInputs, file \in Blobs : putAsset(key, file) /\ UNCHANGED cloud
    \/ Idle /\ \E idsInOrder \in ReorderInputs(albums, nextId.albums) :
                   reorderAlbums(idsInOrder) /\ UNCHANGED cloud
    \/ Idle /\ exportAll /\ UNCHANGED cloud
    \/ Restoring /\ \E data \in ImportInputs : importAll(data) /\ UNCHANGED cloud

SpecBackup == Init /\ [][NextBackup]_vars

\* The facade, for a caller that awaits each call before the next and
\* creates up to MaxMirrored records; the remote steps succeed or fail, and
\* a deleteDoc that was started comes back at any later time.
\* Firebase_deleteAlbum_remote is not listed: the local deleteAlbum never
\* resolves (albumStore.delete throws).
CanCreate == Created < MaxMirrored
VideoUrlInputs == {"https://youtu.be/dQw4w9WgXcQ", "https://example.com/x"}

NextFacade ==
    \/ \E onLine \in BOOLEAN, ok \in BOOLEAN : Firebase_init(onLine, ok)
    \/ syncLocalToCloud
    \/ \E ok \in BOOLEAN : syncToCloud_query(ok)
    \/ \E ok \in BOOLEAN : syncToCloud_add(ok)
    \/ CanCreate /\ \E name \in {"a"} : Firebase_createAlbum(name)
    \/ Firebase_createAlbum_local
    \/ \E ok \in BOOLEAN : Firebase_createAlbum_remote(ok)
    \/ CanCreate /\ \E url \in VideoUrlInputs : Firebase_addVideo(url)
    \/ Firebase_addVideo_local
    \/ \E ok \in BOOLEAN : Firebase_addVideo_remote(ok)
    \/ CanCreate /\ \E file \in {<<72, 105>>}, title \in {"a"} : Firebase_addEssay(file, title)
    \/ Firebase_addEssay_local
    \/ \E ok \in BOOLEAN : Firebase_addEssay_remote(ok)
    \/ \E key \in AssetKeyInputs, file \in {<<72, 105>>} : Firebase_putAsset(key, file)
    \/ \E ok \in BOOLEAN : Firebase_putAsset_remote(ok)
    \/ \E id \in DOMAIN videos : Firebase_deleteVideo(id)
    \/ \E ok \in BOOLEAN : Firebase_deleteVideo_remote(ok)
    \/ \E id \in DOMAIN essays : Firebase_deleteEssay(id)
    \/ \E ok \in BOOLEAN : Firebase_deleteEssay_remote(ok)
    \/ \E id \in DOMAIN albums : Firebase_deleteAlbum(id)
    \/ \E requestOk \in BOOLEAN : Firebase_deleteAlbum_removePhoto(requestOk)
    \/ Firebase_deleteAlbum_local
    \/ \E coll \in Collections, d \in 1..remote.nextDoc, ok \in BOOLEAN :
           deleteDoc(coll, d, ok)
    \/ \E ok \in BOOLEAN : Firebase_getAllAlbums(ok)
    \/ \E ok \in BOOLEAN : Firebase_getAllVideos(ok)
    \/ \E ok \in BOOLEAN, fetched \in SUBSET DOMAIN remote.essays :
           Firebase_getAllEssays(ok, fetched)
    \/ \E key \in AssetKeyInputs, outcome \in {"ok", "getDoc", "fetch"} :
           Firebase_getAsset(key, outcome)
    \/ CanCreate /\ \E albumId \in DOMAIN albums, file \in {<<72, 105>>} :
           Firebase_addPhoto(albumId, file)
    \/ Firebase_addPhoto_local

SpecFacade == Init /\ [][NextFacade]_vars

\* The mirrored writes of the facade, backup and restore included: the
\* caller fills the store, exports it and restores the document right
\* after that; it reads nothing.
NextFacadeWrites ==
    \/ Idle /\ \E onLine \in BOOLEAN, ok \in BOOLEAN : Firebase_init(onLine, ok)
    \/ syncLocalToCloud
    \/ \E ok \in BOOLEAN : syncToCloud_query(ok)
    \/ \E ok \in BOOLEAN : syncToCloud_add(ok)
    \/ Idle /\ CanCreate /\ \E name \in {"a"} : Firebase_createAlbum(name)
    \/ Firebase_createAlbum_local
    \/ \E ok \in BOOLEAN : Firebase_createAlbum_remote(ok)
    \/ Idle /\ CanCreate /\ \E file \in Blobs, title \in {"a"} :
                                Firebase_addEssay(file, title)
    \/ Firebase_addEssay_local
    \/ \E ok \in BOOLEAN : Firebase_addEssay_remote(ok)
    \/ Idle /\ CanCreate /\ \E url \in VideoUrlInputs : Firebase_addVideo(url)
    \/ Firebase_addVideo_local
    \/ \E ok \in BOOLEAN : Firebase_addVideo_remote(ok)
    \/ Idle /\ CanCreate /\ \E albumId \in DOMAIN albums, file \in {<<72, 105>>} :
                                Firebase_addPhoto(albumId, file)
    \/ Firebase_addPhoto_local
    \/ Idle /\ \E key \in AssetKeyInputs, file \in Blobs : Firebase_putAsset(key, file)
    \/ \E ok \in BOOLEAN : Firebase_putAsset_remote(ok)
    \/ Idle /\ \E id \in DOMAIN videos : Firebase_deleteVideo(id)
    \/ \E ok \in BOOLEAN : Firebase_deleteVideo_remote(ok)
    \/ Idle /\ \E id \in DOMAIN essays : Firebase_deleteEssay(id)
    \/ \E ok \in BOOLEAN : Firebase_deleteEssay_remote(ok)
    \/ Idle /\ \E id \in DOMAIN albums : Firebase_deleteAlbum(id)
    \/ \E requestOk \in BOOLEAN : Firebase_deleteAlbum_removePhoto(requestOk)
    \/ Firebase_deleteAlbum_local
    \/ \E coll \in Collections, d \in 1..remote.nextDoc, ok \in BOOLEAN :
           deleteDoc(coll, d, ok)
    \/ Idle /\ Firebase_exportAll
    \/ Restoring /\ fcall = NoFacadeCall /\ Firebase_importAll(exported)

SpecFacadeWrites == Init /\ [][NextFacadeWrites]_vars

\* The passthroughs of the facade, on the albums, photos and videos created
\* through it after the page was loaded.
NextPassthrough ==
    \/ Created = 0 /\ \E onLine \in BOOLEAN, ok \in BOOLEAN :
                         Firebase_init(onLine, ok)
    \/ syncLocalToCloud
    \/ CanCreate /\ \E name \in {"a"} : Firebase_createAlbum(name)
    \/ Firebase_createAlbum_local
    \/ \E ok \in BOOLEAN : Firebase_createAlbum_remote(ok)
    \/ CanCreate /\ \E url \in VideoUrlInputs : Firebase_addVideo(url)
    \/ Firebase_addVideo_local
    \/ \E ok \in BOOLEAN : Firebase_addVideo_remote(ok)
    \/ CanCreate /\ \E albumId \in DOMAIN albums, file \in {<<72, 105>>} :
                       Firebase_addPhoto(albumId, file)
    \/ Firebase_addPhoto_local
    \/ \E id \in AlbumIdInputs, name \in {"b"} : Firebase_renameAlbum(id, name)
    \/ \E idsInOrder \in ReorderInputs(albums, nextId.albums) :
           Firebase_reorderAlbums(idsInOrder)
    \/ \E albumId \in DOMAIN albums, idsInOrder \in ReorderInputs(photos, nextId.photos) :
           Firebase_reorderPhotos(albumId, idsInOrder)
    \/ \E idsInOrder \in ReorderInputs(videos, nextId.videos) :
           Firebase_reorderVideos(idsInOrder)
    \/ \E photoId \in 1..nextId.photos, requestOk \in BOOLEAN :
           Firebase_removePhoto(photoId, requestOk)
    \/ \E albumId \in AlbumIdInputs : Firebase_getPhotosByAlbum(albumId)

SpecPassthrough == Init /\ [][NextPassthrough]_vars

\* The facade with the remote store reachable: the page loads online on an
\* empty store (so the bulk push of enableCloudSync finds nothing to push),
\* the connectivity probe succeeds and every remote request made afterwards
\* resolves.  Continuation is what runs without the caller inside a call
\* that was started; a deleteDoc that was started and not awaited runs
\* beside it.
Continuation ==
    \/ syncLocalToCloud
    \/ Firebase_createAlbum_local
    \/ Firebase_createAlbum_remote(TRUE)
    \/ Firebase_addVideo_local
    \/ Firebase_addVideo_remote(TRUE)
    \/ Firebase_addEssay_local
    \/ Firebase_addEssay_remote(TRUE)
    \/ Firebase_putAsset_remote(TRUE)
    \/ Firebase_deleteVideo_remote(TRUE)
    \/ Firebase_deleteEssay_remote(TRUE)
    \/ Firebase_deleteAlbum_removePhoto(TRUE)
    \/ Firebase_deleteAlbum_local
    \/ Firebase_addPhoto_local

NextMirrorLive ==
    \/ ~syncEnabled /\ Firebase_init(TRUE, TRUE)
    \/ syncLocalToCloud
    \/ syncEnabled /\ CanCreate /\ \E name \in {"a"} : Firebase_createAlbum(name)
    \/ Firebase_createAlbum_local
    \/ Firebase_createAlbum_remote(TRUE)
    \/ syncEnabled /\ CanCreate /\ \E url \in {"https://youtu.be/dQw4w9WgXcQ"} :
           Firebase_addVideo(url)
    \/ Firebase_addVideo_local
    \/ Firebase_addVideo_remote(TRUE)
    \/ syncEnabled /\ CanCreate /\ \E file \in {<<72, 105>>}, title \in {"a"} :
           Firebase_addEssay(file, title)
    \/ Firebase_addEssay_local
    \/ Firebase_addEssay_remote(TRUE)
    \/ syncEnabled /\ \E key \in AssetKeyInputs, file \in {<<72, 105>>} :
           Firebase_putAsset(key, file)
    \/ Firebase_putAsset_remote(TRUE)
    \/ \E id \in DOMAIN videos : Firebase_deleteVideo(id)
    \/ Firebase_deleteVideo_remote(TRUE)
    \/ \E id \in DOMAIN essays : Firebase_deleteEssay(id)
    \/ Firebase_deleteEssay_remote(TRUE)
    \/ \E id \in DOMAIN albums : Firebase_deleteAlbum(id)
    \/ Firebase_deleteAlbum_removePhoto(TRUE)
    \/ Firebase_deleteAlbum_local
    \/ \E coll \in Collections, d \in 1..remote.nextDoc : deleteDoc(coll, d, TRUE)
    \/ \E id \in DOMAIN albums, name \in {"b"} : Firebase_renameAlbum(id, name)
    \/ \E id \in DOMAIN essays, title \in {"b"} : Firebase_renameEssay(id, title)
    \/ \E idsInOrder \in ReorderInputs(albums, nextId.albums) :
           IsPermutation(idsInOrder, DOMAIN albums) /\ Firebase_reorderAlbums(idsInOrder)
    \/ \E idsInOrder \in ReorderInputs(essays, nextId.essays) :
           IsPermutation(idsInOrder, DOMAIN essays) /\ Firebase_reorderEssays(idsInOrder)
    \/ \E idsInOrder \in ReorderInputs(videos, nextId.videos) :
           IsPermutation(idsInOrder, DOMAIN videos) /\ Firebase_reorderVideos(idsInOrder)
    \/ CanCreate /\ \E albumId \in DOMAIN albums, file \in {<<72, 105>>} :
           Firebase_addPhoto(albumId, file)
    \/ Firebase_addPhoto_local
    \/ \E photoId \in DOMAIN photos : Firebase_removePhoto(photoId, TRUE)

\* Whatever runs without the caller does run: a promise that resolved has
\* its continuation scheduled, and a reachable remote answers each request.
SpecMirrorLive ==
    /\ Init /\ [][NextMirrorLive]_vars
    /\ WF_vars(Continuation)
    /\ \A coll \in Collections, d \in 1..MaxMirrored :
           WF_vars(deleteDoc(coll, d, TRUE))

\* The sync coordinator: page loads, creates through the facade, and the
\* network signals with the bulk pushes they start, the remote answering or
\* failing each request.  A run of syncLocalToCloud holds the records it
\* read, so deletes, renames and reorders are kept out of its way here.
NextCoordinator ==
    \/ listeners = {} /\ \E onLine \in BOOLEAN, ok \in BOOLEAN :
                            Firebase_init(onLine, ok)
    \/ syncLocalToCloud
    \/ \E ok \in BOOLEAN : syncToCloud_query(ok)
    \/ \E ok \in BOOLEAN : syncToCloud_add(ok)
    \/ online
    \/ offline
    \/ \E i \in 1..MaxPushes : online_syncLocalToCloud(i)
    \/ \E i \in 1..MaxPushes, ok \in BOOLEAN : online_syncToCloud_query(i, ok)
    \/ \E i \in 1..MaxPushes, ok \in BOOLEAN : online_syncToCloud_add(i, ok)
    \/ CanCreate /\ \E name \in {"a"} : Firebase_createAlbum(name)
    \/ Firebase_createAlbum_local
    \/ \E ok \in BOOLEAN : Firebase_createAlbum_remote(ok)
    \/ CanCreate /\ \E url \in {"https://youtu.be/dQw4w9WgXcQ"} :
           Firebase_addVideo(url)
    \/ Firebase_addVideo_local
    \/ \E ok \in BOOLEAN : Firebase_addVideo_remote(ok)
    \/ CanCreate /\ \E file \in Blobs, title \in {"a"} :
           Firebase_addEssay(file, title)
    \/ Firebase_addEssay_local
    \/ \E ok \in BOOLEAN : Firebase_addEssay_remote(ok)

SpecCoordinator == Init /\ [][NextCoordinator]_vars

\* The coordinator with the remote store reachable: the test read and every
\* request of a push or of a create resolve.
CallContinuation ==
    \/ syncLocalToCloud
    \/ syncToCloud_query(TRUE)
    \/ syncToCloud_add(TRUE)
    \/ Firebase_createAlbum_local
    \/ Firebase_createAlbum_remote(TRUE)
    \/ Firebase_addVideo_local
    \/ Firebase_addVideo_remote(TRUE)
    \/ Firebase_addEssay_local
    \/ Firebase_addEssay_remote(TRUE)
PushContinuation(i) ==
    \/ online_syncLocalToCloud(i)
    \/ online_syncToCloud_query(i, TRUE)
    \/ online_syncToCloud_add(i, TRUE)

NextCoordinatorLive ==
    \/ listeners = {} /\ \E onLine \in BOOLEAN : Firebase_init(onLine, TRUE)
    \/ syncLocalToCloud
    \/ syncToCloud_query(TRUE)
    \/ syncToCloud_add(TRUE)
    \/ online
    \/ offline
    \/ \E i \in 1..MaxPushes : online_syncLocalToCloud(i)
    \/ \E i \in 1..MaxPushes : online_syncToCloud_query(i, TRUE)
    \/ \E i \in 1..MaxPushes : online_syncToCloud_add(i, TRUE)
    \/ CanCreate /\ \E name \in {"a"} : Firebase_createAlbum(name)
    \/ Firebase_createAlbum_local
    \/ Firebase_createAlbum_remote(TRUE)
    \/ CanCreate /\ \E url \in {"https://youtu.be/dQw4w9WgXcQ"} :
           Firebase_addVideo(url)
    \/ Firebase_addVideo_local
    \/ Firebase_addVideo_remote(TRUE)
    \/ CanCreate /\ \E file \in {<<72, 105>>}, title \in {"a"} :
           Firebase_addEssay(file, title)
    \/ Firebase_addEssay_local
    \/ Firebase_addEssay_remote(TRUE)

\* A call that was started goes on, and so does each run of syncLocalToCloud
\* that an 'online' event started: their promises resolve.
SpecCoordinatorLive ==
    /\ Init /\ [][NextCoordinatorLive]_vars
    /\ WF_vars(CallContinuation)
    /\ \A i \in 1..MaxPushes : WF_vars(PushContinuation(i))

\* The facade of a page that loaded online and then sees the network go
\* and come back: creates, assets and reads, the remote answering or
\* failing each request whatever the browser says about the network.
NextOffline ==
    \/ listeners = {} /\ \E ok \in BOOLEAN : Firebase_init(TRUE, ok)
    \/ syncLocalToCloud
    \/ \E ok \in BOOLEAN : syncToCloud_query(ok)
    \/ \E ok \in BOOLEAN : syncToCloud_add(ok)
    \/ offline
    \/ pushes = << >> /\ Quiet /\ online
    \/ \E i \in 1..MaxPushes : online_syncLocalToCloud(i)
    \/ \E i \in 1..MaxPushes, ok \in BOOLEAN : online_syncToCloud_query(i, ok)
    \/ \E i \in 1..MaxPushes, ok \in BOOLEAN : online_syncToCloud_add(i, ok)
    \/ pushes = << >> /\ CanCreate /\ \E name \in {"a"} : Firebase_createAlbum(name)
    \/ Firebase_createAlbum_local
    \/ \E ok \in BOOLEAN : Firebase_createAlbum_remote(ok)
    \/ pushes = << >> /\ CanCreate /\ \E file \in {<<72, 105>>}, title \in {"a"} :
           Firebase_addEssay(file, title)
    \/ Firebase_addEssay_local
    \/ \E ok \in BOOLEAN : Firebase_addEssay_remote(ok)
    \/ \E key \in AssetKeyInputs, file \in {<<72, 105>>} : Firebase_putAsset(key, file)
    \/ \E ok \in BOOLEAN : Firebase_putAsset_remote(ok)
    \/ \E ok \in BOOLEAN : Firebase_getAllAlbums(ok)
    \/ \E ok \in BOOLEAN, fetched \in SUBSET DOMAIN remote.essays :
           Firebase_getAllEssays(ok, fetched)
    \/ \E key \in AssetKeyInputs, outcome \in {"ok", "getDoc", "fetch"} :
           Firebase_getAsset(key, outcome)

SpecOffline == Init /\ [][NextOffline]_vars

\* The subscriptions at work: page loads, the user switching tabs, and the
\* remote store reporting changes of the three collections.
NextLive ==
    \/ \E onLine \in BOOLEAN, ok \in BOOLEAN : Firebase_init(onLine, ok)
    \/ syncLocalToCloud
    \/ \E ok \in BOOLEAN : syncToCloud_query(ok)
    \/ \E ok \in BOOLEAN : syncToCloud_add(ok)
    \/ CanCreate /\ \E name \in {"a"} : Firebase_createAlbum(name)
    \/ Firebase_createAlbum_local
    \/ \E ok \in BOOLEAN : Firebase_createAlbum_remote(ok)
    \/ \E tabName \in Tabs : switchTab(tabName)
    \/ handleRealtimeAlbumChange
    \/ handleRealtimeEssayChange
    \/ handleRealtimeVideoChange

SpecLive == Init /\ [][NextLive]_vars

\* Ordered reads: albums are created and reordered, pushed by the page load
\* and by runs that 'online' events start, and listed through the facade.
\* A run of syncLocalToCloud holds the records it read, so the caller makes
\* no call while one is in progress.
NextOrdered ==
    \/ listeners = {} /\ \E ok \in BOOLEAN : Firebase_init(TRUE, ok)
    \/ syncLocalToCloud
    \/ \E ok \in BOOLEAN : syncToCloud_query(ok)
    \/ \E ok \in BOOLEAN : syncToCloud_add(ok)
    \/ pushes = << >> /\ Quiet /\ online
    \/ \E i \in 1..MaxPushes : online_syncLocalToCloud(i)
    \/ \E i \in 1..MaxPushes, ok \in BOOLEAN : online_syncToCloud_query(i, ok)
    \/ \E i \in 1..MaxPushes, ok \in BOOLEAN : online_syncToCloud_add(i, ok)
    \/ pushes = << >> /\ CanCreate /\ \E name \in {"a"} : Firebase_createAlbum(name)
    \/ Firebase_createAlbum_local
    \/ \E ok \in BOOLEAN : Firebase_createAlbum_remote(ok)
    \/ pushes = << >> /\ \E idsInOrder \in ReorderInputs(albums, nextId.albums) :
           Firebase_reorderAlbums(idsInOrder)
    \/ pushes = << >> /\ CanCreate /\ \E albumId \in DOMAIN albums, file \in {<<72, 105>>} :
           Firebase_addPhoto(albumId, file)
    \/ Firebase_addPhoto_local
    \/ pushes = << >> /\ \E albumId \in DOMAIN albums : Firebase_getPhotosByAlbum(albumId)
    \/ pushes = << >> /\ \E ok \in BOOLEAN : Firebase_getAllAlbums(ok)

SpecOrdered == Init /\ [][NextOrdered]_vars

\* Time passes between two calls: the next new Date() reads a later time.
tick ==
    /\ now < 1000 + MaxTicks
    /\ now' = now + 1
    /\ UNCHANGED <<syncEnabled, remote, fcall, flast, coord, local>>

\* Renames on the local Database: albums and essays are created and
\* renamed, by ids that are in the store and by ids that are not, while
\* time passes.
NextRename ==
    \/ tick
    \/ \E name \in {"a"} : createAlbumRead(name) /\ UNCHANGED cloud
    \/ \E i \in 1..MaxProcs : createAlbumAdd(i) /\ UNCHANGED cloud
    \/ \E file \in {<<72, 105>>}, title \in {"a"} :
           addEssayRead(file, title) /\ UNCHANGED cloud
    \/ \E i \in 1..MaxProcs : addEssayAdd(i) /\ UNCHANGED cloud
    \/ \E id \in 1..nextId.albums, name \in Names :
           renameAlbum(id, name) /\ UNCHANGED cloud
    \/ \E id \in 1..nextId.essays, title \in Names :
           renameEssay(id, title) /\ UNCHANGED cloud

SpecRename == Init /\ [][NextRename]_vars



\* ================================================================ claims
CreateOps == {"createAlbum", "addPhoto", "addEssay", "addVideo"}
Scopes == {AlbumScope, EssayScope, VideoScope}
          \cup {PhotoScope(a) : a \in AlbumIdInputs}
Recs(scope) ==
    CASE scope[1] = "albums" -> albums
      [] scope[1] = "photos" -> photos
      [] scope[1] = "essays" -> essays
      [] OTHER -> videos
Ids(scope) ==
    IF scope[1] = "photos" THEN PhotoIdsOf(photos, scope[2])
    ELSE DOMAIN Recs(scope)
\* What the list call of a scope returns (the ids of the records, in order).
List(scope) ==
    CASE scope[1] = "albums" -> getAllAlbums
      [] scope[1] = "photos" -> getPhotosByAlbum(scope[2])
      [] scope[1] = "essays" -> getAllEssays
      [] OTHER -> getAllVideos
\* The ids of a set in ascending order: the order in which they were created.
Ascending(ids) ==
    CHOOSE s \in [1..Cardinality(ids) -> ids] :
        \A i, j \in 1..Cardinality(ids) : i < j => s[i] < s[j]
Restrict(s, ids) == SelectSeq(s, LAMBDA x : x \in ids)

\* C1: in a scope that has seen only create calls, each awaited before the
\* next, a record created later has a strictly greater order than every
\* record created earlier, and the list call returns the records in creation
\* order.
C1_CreatesAscend ==
    \A scope \in Scopes \ touched :
        /\ \A i, j \in Ids(scope) :
               i < j => Recs(scope)[i].order < Recs(scope)[j].order
        /\ List(scope) = Ascending(Ids(scope))

C1_Witness ==
    /\ last.op = "addPhoto"
    /\ last.scope \notin touched
    /\ Cardinality(Ids(last.scope)) >= 2
    /\ AlbumScope \notin touched
    /\ albums # << >>

\* C2 as claimed: a create that overlaps no other write of its scope never
\* gets an order value that an earlier create of the scope was given.
C2_OrderNeverReused ==
    (last.op \in CreateOps /\ ~last.overlapped) => last.fresh

\* C2 amended: a create that overlaps no other write of its scope gets 1 in
\* an empty scope and otherwise the greatest order of the records now in the
\* scope plus 1, so its order is above every record of the scope; the value
\* can be one that a deleted or reordered record held before.
C2_CreateIsMaxPlusOne ==
    (last.op \in CreateOps /\ last.res = "ok" /\ ~last.overlapped) =>
        LET recs == Recs(last.scope)
            others == Ids(last.scope) \ {last.id}
        IN  /\ last.id \in Ids(last.scope)
            /\ \A o \in others : recs[o].order < recs[last.id].order
            /\ IF others = {} THEN recs[last.id].order = 1
               ELSE \E o \in others : recs[last.id].order = recs[o].order + 1

C2_Witness ==
    /\ last.op = "addVideo"
    /\ last.res = "ok"
    /\ ~last.overlapped
    /\ ~last.fresh
    /\ VideoScope \notin dirty

UniqueOrders(scope) ==
    \A i, j \in Ids(scope) :
        i # j => Recs(scope)[i].order # Recs(scope)[j].order

\* C3 as claimed: in every reachable state no two records of a scope have
\* the same order.
C3_OrdersUnique == \A scope \in Scopes : UniqueOrders(scope)

\* C3 amended: no two records of a scope have the same order as long as
\* every create of the scope overlapped no other write of the scope and
\* every reorder of the scope listed all the ids of the scope.
C3_OrdersUniqueWhenClean == \A scope \in Scopes \ dirty : UniqueOrders(scope)

C3_Witness ==
    /\ last.op = "createAlbum"
    /\ ~last.overlapped
    /\ ~last.fresh
    /\ AlbumScope \in touched \ dirty
    /\ Cardinality(DOMAIN albums) >= 3

\* The reorder inputs that are a permutation of the ids of a scope, a strict
\* subset of them, or that name an id outside the scope.
PermutationInputs(recs, unusedId, scopeIds) ==
    {s \in ReorderInputs(recs, unusedId) : IsPermutation(s, scopeIds)}
SubsetInputs(recs, unusedId, scopeIds) ==
    {s \in ReorderInputs(recs, unusedId) :
        Range(s) \subseteq scopeIds /\ Range(s) # scopeIds}
ForeignInputs(recs, unusedId, scopeIds) ==
    {s \in ReorderInputs(recs, unusedId) : ~(Range(s) \subseteq scopeIds)}

\* C4: a reorder call whose list is a permutation of the ids of its scope
\* is followed by a list call that returns exactly that list.
C4_PermutationIsListed ==
    [][/\ last'.op = "reorderAlbums" =>
          \A idsInOrder \in PermutationInputs(albums, nextId.albums, DOMAIN albums) :
              reorderAlbums(idsInOrder) => getAllAlbums' = idsInOrder
       /\ last'.op = "reorderPhotos" =>
          \A albumId \in {last'.scope[2]} :
          \A idsInOrder \in PermutationInputs(photos, nextId.photos,
                                              PhotoIdsOf(photos, albumId)) :
              reorderPhotos(albumId, idsInOrder)
                  => getPhotosByAlbum(albumId)' = idsInOrder
       /\ last'.op = "reorderEssays" =>
          \A idsInOrder \in PermutationInputs(essays, nextId.essays, DOMAIN essays) :
              reorderEssays(idsInOrder) => getAllEssays' = idsInOrder
       /\ last'.op = "reorderVideos" =>
          \A idsInOrder \in PermutationInputs(videos, nextId.videos, DOMAIN videos) :
              reorderVideos(idsInOrder) => getAllVideos' = idsInOrder
      ]_vars

C4_Witness ==
    /\ last.op = "reorderAlbums"
    /\ {"permutation", "moved"} \subseteq last.tags
    /\ Cardinality(DOMAIN albums) >= 3

\* The records of a scope that a reorder list does not name keep their
\* record, and their relative order in the list call.
Untouched(recs, recsAfter, scopeIds, idsInOrder) ==
    LET rest == scopeIds \ Range(idsInOrder)
    IN  /\ \A id \in rest : recsAfter[id] = recs[id]
        /\ Restrict(SortByOrder(recsAfter, scopeIds), rest)
               = Restrict(SortByOrder(recs, scopeIds), rest)

\* C5: a reorder call whose list is a strict subset of the ids of its scope
\* leaves the order of every record it does not list unchanged, and any two
\* such records keep their relative order in the list call.
C5_UnlistedUntouched ==
    [][/\ last'.op = "reorderEssays" =>
          \A idsInOrder \in SubsetInputs(essays, nextId.essays, DOMAIN essays) :
              reorderEssays(idsInOrder)
                  => Untouched(essays, essays', DOMAIN essays, idsInOrder)
       /\ last'.op = "reorderVideos" =>
          \A idsInOrder \in SubsetInputs(videos, nextId.videos, DOMAIN videos) :
              reorderVideos(idsInOrder)
                  => Untouched(videos, videos', DOMAIN videos, idsInOrder)
       /\ last'.op = "reorderAlbums" =>
          \A idsInOrder \in SubsetInputs(albums, nextId.albums, DOMAIN albums) :
              reorderAlbums(idsInOrder)
                  => Untouched(albums, albums', DOMAIN albums, idsInOrder)
       /\ last'.op = "reorderPhotos" =>
          \A albumId \in {last'.scope[2]} :
          \A idsInOrder \in SubsetInputs(photos, nextId.photos,
                                         PhotoIdsOf(photos, albumId)) :
              reorderPhotos(albumId, idsInOrder)
                  => Untouched(photos, photos', PhotoIdsOf(photos, albumId),
                               idsInOrder)
      ]_vars

C5_Witness ==
    /\ last.op = "reorderEssays"
    /\ {"subset", "hit", "twoUntouched", "moved"} \subseteq last.tags

\* What a reorder call may change: the order of the records of its scope
\* that it lists, each set to the 0-based position of the id in the list.
SkipsForeign(recs, recsAfter, scopeIds, idsInOrder) ==
    /\ DOMAIN recsAfter = DOMAIN recs
    /\ \A id \in DOMAIN recs :
           IF id \in scopeIds \cap Range(idsInOrder)
           THEN \E i \in DOMAIN idsInOrder :
                    /\ idsInOrder[i] = id
                    /\ recsAfter[id] = [recs[id] EXCEPT !.order = i - 1]
           ELSE recsAfter[id] = recs[id]

\* C6: a reorder call given an id of no record or, for reorderPhotos, an id
\* of a photo of another album completes; such an id is skipped, no record
\* is added or removed, the photos of other albums are unchanged, and every
\* listed record of the scope gets its 0-based position as order.
C6_ForeignIdsSkipped ==
    [][/\ last'.op = "reorderPhotos" =>
          \A albumId \in {last'.scope[2]} :
          \A idsInOrder \in ForeignInputs(photos, nextId.photos,
                                          PhotoIdsOf(photos, albumId)) :
              reorderPhotos(albumId, idsInOrder) =>
                  /\ last'.res = "ok"
                  /\ albums' = albums
                  /\ SkipsForeign(photos, photos', PhotoIdsOf(photos, albumId),
                                  idsInOrder)
       /\ last'.op = "reorderAlbums" =>
          \A idsInOrder \in ForeignInputs(albums, nextId.albums, DOMAIN albums) :
              reorderAlbums(idsInOrder) =>
                  /\ last'.res = "ok"
                  /\ photos' = photos
                  /\ SkipsForeign(albums, albums', DOMAIN albums, idsInOrder)
       /\ last'.op = "reorderEssays" =>
          \A idsInOrder \in ForeignInputs(essays, nextId.essays, DOMAIN essays) :
              reorderEssays(idsInOrder) =>
                  /\ last'.res = "ok"
                  /\ SkipsForeign(essays, essays', DOMAIN essays, idsInOrder)
       /\ last'.op = "reorderVideos" =>
          \A idsInOrder \in ForeignInputs(videos, nextId.videos, DOMAIN videos) :
              reorderVideos(idsInOrder) =>
                  /\ last'.res = "ok"
                  /\ SkipsForeign(videos, videos', DOMAIN videos, idsInOrder)
      ]_vars

C6_Witness ==
    /\ last.op = "reorderPhotos"
    /\ {"hit", "otherScope"} \subseteq last.tags

\* C7 as claimed: once deleteAlbum(id) has run to its end on an existing
\* album, with no storage request failing, no photo of the album is left and
\* the album is gone.
C7_AlbumAndPhotosGone ==
    (last.op = "deleteAlbum" /\ "existed" \in last.tags /\ ~last.childFailed) =>
        /\ last.id \notin DOMAIN albums
        /\ PhotoIdsOf(photos, last.id) = {}

\* C8: when the deletion of a child photo fails, deleteAlbum ends with that
\* failure, it has not issued the delete of the album, and the album is
\* still there.
C8_AlbumKeptOnChildFailure ==
    (last.op = "deleteAlbum" /\ last.childFailed) =>
        /\ last.res = "RequestError"
        /\ "issued" \notin last.tags
        /\ "existed" \in last.tags => last.id \in DOMAIN albums

C8_Witness ==
    /\ last.op = "deleteAlbum"
    /\ last.childFailed
    /\ "existed" \in last.tags
    /\ PhotoIdsOf(photos, last.id) # {}

\* C9 as claimed: whenever no call is in progress, the albumId of every
\* stored photo is the id of an existing album.
C9_NoOrphanPhoto ==
    procs = << >> => \A p \in DOMAIN photos : photos[p].albumId \in DOMAIN albums
\* The logical records of a store <<assets, albums, photos, essays, videos>>,
\* ids left out: the albums in list order, each with the photos of its list;
\* the essays and the videos in list order; the assets by key.  With
\* orderValues the order fields are part of it, else only the positions are.
\* With all, the records whose blob has size 0 and the photos of no album
\* count; else they are left out.
LogicalRecords(st, orderValues, all) ==
    LET Order(rec) == IF orderValues THEN rec.order ELSE 0
        Kept(blob) == all \/ blob # << >>
        albumIds == SortByOrder(st[2], DOMAIN st[2])
        PhotosOf(albumId) ==
            LET ids == SelectSeq(SortByOrder(st[3], PhotoIdsOf(st[3], albumId)),
                                 LAMBDA id : Kept(st[3][id].blob))
            IN  [i \in DOMAIN ids |->
                    [blob |-> st[3][ids[i]].blob, order |-> Order(st[3][ids[i]])]]
        essayIds == SelectSeq(SortByOrder(st[4], DOMAIN st[4]),
                              LAMBDA id : Kept(st[4][id].pdfBlob))
        videoIds == SortByOrder(st[5], DOMAIN st[5])
    IN  [assets |-> [key \in {k \in DOMAIN st[1] : Kept(st[1][k])} |-> st[1][key]],
         albums |-> [i \in DOMAIN albumIds |->
                        [name |-> st[2][albumIds[i]].name,
                         order |-> Order(st[2][albumIds[i]]),
                         photos |-> PhotosOf(albumIds[i])]],
         strays |-> IF all
                    THEN Cardinality({id \in DOMAIN st[3] :
                                         st[3][id].albumId \notin DOMAIN st[2]})
                    ELSE 0,
         essays |-> [i \in DOMAIN essayIds |->
                        [title |-> st[4][essayIds[i]].title,
                         blob |-> st[4][essayIds[i]].pdfBlob,
                         order |-> Order(st[4][essayIds[i]])]],
         videos |-> [i \in DOMAIN videoIds |->
                        [url |-> st[5][videoIds[i]].url,
                         order |-> Order(st[5][videoIds[i]])]]]

\* importAll(exportAll(S)) has just returned.
Restored ==
    last.op = "importAll" /\ last.res = "ok" /\ "exported" \in last.tags

\* C10 as stated: after importAll(exportAll(S)) the store has the same logical
\* records as S, order values and blob contents included, only the ids may
\* differ.
C10_RoundTripKeepsOrderValues ==
    Restored => LogicalRecords(store, TRUE, TRUE) = LogicalRecords(source, TRUE, TRUE)

\* What the round trip does keep: the store then holds exactly the records
\* of S whose blob is not of size 0 (photos of albums, essays, assets), all
\* albums and all videos, with the same names, titles, urls, photo-to-album
\* membership and blob bytes, in the same list order.
RoundTripKeepsListOrder ==
    Restored =>
        LogicalRecords(store, FALSE, TRUE) = LogicalRecords(source, FALSE, FALSE)

\* A restore of a store with an asset, an album whose order is 0, and a
\* photo with bytes in it.
RoundTripOfReorderedAlbum ==
    /\ Restored
    /\ DOMAIN source[1] # {}
    /\ \E id \in DOMAIN source[2] : source[2][id].order = 0
    /\ \E id \in DOMAIN photos : photos[id].blob = <<72, 105>>
\* C11: importAll of a document whose version is missing or is not the
\* store's version ends with the incompatible-version error and leaves the
\* five collections and the key generators as they were.
C11_VersionMismatchChangesNothing ==
    [][last'.op = "importAll" =>
          \A data \in ImportInputs :
              (data.version # version /\ importAll(data)) =>
                  /\ last'.res = "Incompatible data version"
                  /\ store' = store
                  /\ nextId' = nextId
      ]_vars

\* A rejected import on a store that holds an asset, an album and a photo.
C11_Witness ==
    /\ last.op = "importAll"
    /\ last.res = "Incompatible data version"
    /\ DOMAIN assets # {}
    /\ DOMAIN albums # {}
    /\ DOMAIN photos # {}

\* C12: after a successful importAll(snapshot) no record that was in a
\* collection before the call is left (the keys of the records are all new,
\* an asset is the snapshot's), and the store holds no more records than
\* the snapshot has: one album per snapshot album, one video per snapshot
\* video, at most one photo, essay and asset per snapshot entry.
C12_ImportReplacesEverything ==
    [][(last'.op = "importAll" /\ last'.res = "ok") =>
          \A data \in ImportInputs :
              (data.version = version /\ importAll(data)) =>
                  /\ DOMAIN albums' \cap DOMAIN albums = {}
                  /\ DOMAIN photos' \cap DOMAIN photos = {}
                  /\ DOMAIN essays' \cap DOMAIN essays = {}
                  /\ DOMAIN videos' \cap DOMAIN videos = {}
                  /\ Cardinality(DOMAIN albums') = Len(data.albums)
                  /\ Cardinality(DOMAIN videos') = Len(data.videos)
                  /\ Cardinality(DOMAIN photos') <= Len(data.photos)
                  /\ Cardinality(DOMAIN essays') <= Len(data.essays)
                  /\ DOMAIN assets' \subseteq DOMAIN data.assets
                  /\ \A key \in DOMAIN assets' :
                         btoa(assets'[key]) = data.assets[key].data
      ]_vars

\* A successful import of the export of an empty store into a store that
\* held an asset, an album and a photo: all of them are gone.
C12_Witness ==
    /\ last.op = "importAll"
    /\ last.res = "ok"
    /\ "exported" \notin last.tags
    /\ store = << << >>, << >>, << >>, << >>, << >> >>
    /\ DOMAIN source[1] # {}
    /\ DOMAIN source[2] # {}
    /\ DOMAIN source[3] # {}

\* The blobs of the photos that a list of photo ids names, in list order.
BlobsOf(ids) == [i \in DOMAIN ids |-> photos[ids[i]].blob]

\* The snapshot photos of one snapshot album, in snapshot order, decoded.
SnapshotBlobsOf(data, oldAlbumId) ==
    LET own == SelectSeq(data.photos, LAMBDA photo : photo.albumId = oldAlbumId)
    IN  [i \in DOMAIN own |-> atob(own[i].data)]

UrlsOf(vs) == [i \in DOMAIN vs |-> vs[i].url]

\* C14 as claimed: importAll of a snapshot of the store's version completes,
\* also when the url of a snapshot video matches neither provider pattern,
\* and creates the snapshot videos whose url parses, in snapshot order.
C14_UnparseableVideoSkipped ==
    [][last'.op = "importAll" =>
          \A data \in ImportInputs :
              (data.version = version /\ importAll(data)) =>
                  /\ last'.res = "ok"
                  /\ UrlsOf([i \in DOMAIN getAllVideos' |-> videos'[getAllVideos'[i]]])
                         = SelectSeq(UrlsOf(data.videos),
                               LAMBDA url : parseVideoUrl(url).provider # "null")
      ]_vars

\* ---------------------------------------------------------------- C15
\* The input url that matches neither pattern of parseVideoUrl.
UnparseableUrls == {"https://example.com/x"}

\* C15: addVideo with a url that matches neither the YouTube nor the Vimeo
\* pattern rejects with an error and writes nothing: the local videos store
\* and its key generator are as before, and through the facade, sync
\* enabled or not, the call is over without a remote write, so that no
\* remote video document is created.
C15_InvalidUrlWritesNothing ==
    [][\A url \in UnparseableUrls :
          Firebase_addVideo(url) =>
              /\ flast'.op = "addVideo"
              /\ flast'.res = "Invalid video URL"
              /\ last'.res = "Invalid video URL"
              /\ store' = store
              /\ nextId' = nextId
              /\ remote' = remote
              /\ fcall' = NoFacadeCall
              /\ flast'.writes = 0]_vars
C15_Witness ==
    /\ flast.op = "addVideo"
    /\ flast.res = "Invalid video URL"
    /\ flast.sync
    /\ fcall = NoFacadeCall
    /\ remote.videos = << >>

\* ---------------------------------------------------------------- C16
MirroredWrites == {"createAlbum", "addVideo", "addEssay", "putAsset",
                   "deleteAlbum", "deleteVideo", "deleteEssay", "importAll"}
\* Positions of a facade call after its local call: the remote step of a
\* write, and the bulk push and its items.
RemotePhase == {"remote", "sync", "query", "add"}

\* C16: with sync enabled, a mirrored write whose remote step failed
\* (the write to the remote store, the query before it, or any item of the
\* bulk push) succeeds as its local call did and returns the value it
\* returns when the remote step succeeds, and no step after the local call
\* changes the local store.
C16_RemoteFailureKeepsOutcome ==
    [][/\ fcall.pc \in RemotePhase => (store' = store /\ nextId' = nextId)
       /\ (flast' # flast /\ flast'.op \in MirroredWrites /\ flast'.failed) =>
              /\ flast'.sync
              /\ flast'.localRes = "ok"
              /\ flast'.res = "ok"
              /\ flast'.value = Returned(flast'.op, flast'.localValue, FALSE)]_vars
C16_Witness ==
    /\ flast.op = "createAlbum"
    /\ flast.failed
    /\ flast.res = "ok"
    /\ flast.value = IdValue(flast.id)
    /\ flast.id \in DOMAIN albums
    /\ DocsOf("albums", flast.id) = {}
\* The same for a restore whose bulk push failed at an item.
C16_WitnessImport ==
    /\ flast.op = "importAll"
    /\ flast.failed
    /\ flast.res = "ok"
    /\ albums # << >>

\* ---------------------------------------------------------------- C17
\* The facade methods that change a store.
MutatingOps == MirroredWrites \cup
    {"renameAlbum", "renameEssay", "reorderAlbums", "reorderPhotos",
     "reorderEssays", "reorderVideos", "addPhoto", "removePhoto"}
\* A step that issues a remote write (a deleteDoc coming back issues none).
IssuesRemoteWrite == remote' # remote /\ remote.deleting \subseteq remote'.deleting
\* A facade call returns or rejects in this step.
Completes(ops) == flast' # flast /\ flast'.op \in ops

\* The local call comes first, and a failed local call is reported to the
\* caller as it is, with no remote write.
LocalFirstNoWriteOnFailure ==
    [][/\ IssuesRemoteWrite => fcall.pc \in RemotePhase \ {"sync"}
       /\ Completes(MutatingOps) =>
              /\ flast'.res = flast'.localRes
              /\ flast'.localRes # "ok" =>
                     (flast'.writes = 0 /\ remote' = remote)]_vars

\* Every mutating operation but putAsset returns the result of its local
\* call.
OthersReturnLocalResult ==
    [][Completes(MutatingOps \ {"putAsset"}) =>
           flast'.value = flast'.localValue]_vars

\* C17: for every mutating facade operation the local call is completed
\* before a remote write of the operation is issued, the value returned to
\* the caller is the result of the local call, and a failed local call is
\* followed by no remote write.
C17_LocalFirstAndReturned ==
    [][/\ IssuesRemoteWrite => fcall.pc \in RemotePhase \ {"sync"}
       /\ Completes(MutatingOps) =>
              /\ flast'.res = flast'.localRes
              /\ flast'.value = flast'.localValue
              /\ flast'.localRes # "ok" =>
                     (flast'.writes = 0 /\ remote' = remote)]_vars
\* A local call that failed with sync enabled, and nothing written remotely.
LocalFailureWitness ==
    /\ flast.op \in {"addVideo", "deleteAlbum"}
    /\ flast.sync
    /\ flast.res # "ok"
    /\ flast.writes = 0

\* ---------------------------------------------------------------- C18
ReadOps == {"getAllAlbums", "getAllEssays", "getAllVideos", "getAsset",
            "getPhotosByAlbum", "exportAll"}
\* With sync disabled, a call of one of the operations ends as its local
\* call ended and with the value the local call gave, after no remote read
\* and no remote write; a read leaves the local store as it was.
LikeLocalWhenDisabled(ops) ==
    /\ (IssuesRemoteWrite /\ fcall.op # "none") => syncEnabled
    /\ (Completes(ops) /\ ~flast'.sync) =>
           /\ flast'.reads = 0
           /\ flast'.writes = 0
           /\ remote' = remote
           /\ flast'.res = flast'.localRes
           /\ flast'.value = flast'.localValue
           /\ flast'.op \in ReadOps => store' = store

\* The operations other than putAsset.
OthersLikeLocalWhenDisabled ==
    [][LikeLocalWhenDisabled((MutatingOps \cup ReadOps) \ {"putAsset"})]_vars
DisabledReadWitness ==
    /\ flast.op = "getAllAlbums"
    /\ ~flast.sync
    /\ flast.value.list # << >>
    /\ remote.albums = << >>

\* C18: with syncEnabled = false every facade operation performs no remote
\* operation and is indistinguishable from the same operation of the local
\* store: same local state afterwards, same success or failure, same
\* returned value.
C18_SyncDisabledIsLocal ==
    [][LikeLocalWhenDisabled(MutatingOps \cup ReadOps)]_vars

\* ---------------------------------------------------------------- C19
ReadPassthroughs == {"getAllAlbums", "getAllEssays", "getAllVideos", "getAsset"}
\* The list holds an essay whose file could not be fetched.
HasUnfetched(value) == \E i \in DOMAIN value.list : value.list[i].blob = Null

\* A read goes to the remote store only with sync enabled and never
\* rejects; with sync disabled, and when the remote read failed, it returns
\* the local result, except that getAllEssays returns the remote list,
\* with pdfBlob null, when the fetch of an essay file failed.
ReadsFallBackButForFetch ==
    [][Completes(ReadPassthroughs) =>
           /\ flast'.reads > 0 => flast'.sync
           /\ flast'.res = "ok"
           /\ (~flast'.sync \/ flast'.failed) =>
                  \/ flast'.value = flast'.localValue
                  \/ flast'.op = "getAllEssays" /\ HasUnfetched(flast'.value)]_vars
\* A list read that failed remotely and returned the local list, which
\* differs from the remote one.
FallBackWitness ==
    /\ flast.op = "getAllAlbums"
    /\ flast.sync
    /\ flast.failed
    /\ flast.value = ListValue(LocalAlbums)
    /\ LocalAlbums # CloudList("albums", {})

\* C19: each read passthrough issues a remote read only when syncEnabled
\* is true; when sync is disabled or the remote read fails it returns
\* exactly the result of the local read, and it never fails because of a
\* remote error.
C19_ReadsFallBackToLocal ==
    [][Completes(ReadPassthroughs) =>
           /\ flast'.reads > 0 => flast'.sync
           /\ flast'.res = "ok"
           /\ (~flast'.sync \/ flast'.failed) =>
                  flast'.value = flast'.localValue]_vars

\* ---------------------------------------------------------------- C20
CreateOpOf(coll) ==
    CASE coll = "albums" -> "createAlbum"
      [] coll = "essays" -> "addEssay"
      [] coll = "videos" -> "addVideo"
ListOpOf(coll) ==
    CASE coll = "albums" -> "getAllAlbums"
      [] coll = "essays" -> "getAllEssays"
      [] coll = "videos" -> "getAllVideos"
\* This step is a list call of the collection, with sync enabled, right
\* after a create of the collection whose remote write failed.
ListsAfterFailedMirror(coll) ==
    /\ flast.op = CreateOpOf(coll)
    /\ flast.sync /\ flast.failed /\ flast.res = "ok"
    /\ fcall = NoFacadeCall
    /\ flast'.op = ListOpOf(coll)
    /\ flast'.sync
Lists(value, id) == \E i \in DOMAIN value.list : value.list[i].id = id

\* The record is listed when the list call fell back to the local list,
\* and missing when it returned the remote documents.
ListedIffLocalList ==
    [][\A coll \in Collections :
          ListsAfterFailedMirror(coll) =>
              (Lists(flast'.value, flast.id) <=>
                   (flast'.failed /\ ~HasUnfetched(flast'.value)))]_vars

\* C20: with sync enabled, after a create whose local write succeeded and
\* whose remote write failed, the next facade list of the collection
\* contains the new record, also when the remote read of that list call
\* succeeds.
C20_FailedMirrorStillListed ==
    [][\A coll \in Collections :
          ListsAfterFailedMirror(coll) => Lists(flast'.value, flast.id)]_vars

\* ------------------------------------------------------------------ C21
\* The remote mirror of a collection: what its documents say, in the order
\* getDocs and the facade's sort give them.
Mirror(coll) ==
    LET list == CloudList(coll, DOMAIN remote[coll])
    IN  [i \in DOMAIN list |-> <<list[i].id, list[i].label>>]
LocalView(coll) ==
    LET list == LocalList(coll)
    IN  [i \in DOMAIN list |-> <<list[i].id, list[i].label>>]
\* The album document is written with `photos: []` and no code updates it.
RemotePhotos(localId) == << >>
\* The remote mirror says what the local store says: the same records with
\* the same name, title or url in the same order, the same photos in every
\* album, and the same assets.
Reflected ==
    /\ \A coll \in Collections : Mirror(coll) = LocalView(coll)
    /\ \A id \in DOMAIN albums : RemotePhotos(id) = getPhotosByAlbum(id)
    /\ remote.assets = assets
\* The mirror has a document for exactly the local records and assets.
SameRecords ==
    /\ \A coll \in Collections :
           {m[1] : m \in Range(Mirror(coll))} = {m[1] : m \in Range(LocalView(coll))}
    /\ remote.assets = assets

\* What create, deleteVideo, deleteEssay and putAsset do is mirrored: again
\* and again the mirror holds exactly the local records and assets.
CreatesAndDeletesMirrored == []<>(syncEnabled => SameRecords)

\* C21: with sync enabled and the remote store reachable, every mutation
\* made through the facade is eventually reflected in the remote mirror.
C21_MutationsEventuallyMirrored == []<>(syncEnabled => Reflected)
C21_Witness ==
    /\ syncEnabled /\ Quiet /\ remote.deleting = {}
    /\ flast.op = "renameAlbum" /\ flast.res = "ok"
    /\ ~Reflected

\* ------------------------------------------------------------------ C22
\* init returns from an enableCloudSync whose test read failed: a failure
\* was caught and the test read is the only remote read that was made.
ProbeFailed ==
    /\ flast' # flast /\ flast'.op = "init"
    /\ flast'.failed /\ flast'.reads = 1

\* C22: enableCloudSync never propagates an error to its caller; if the
\* connectivity probe fails, then when it returns syncEnabled is false, no
\* bulk push has written to the remote store and no change subscription has
\* been installed.
C22_ProbeFailureLeavesSyncOff ==
    [][/\ (flast' # flast /\ flast'.op = "init") => flast'.res = "ok"
       /\ ProbeFailed => /\ ~syncEnabled'
                         /\ remote' = remote /\ flast'.writes = 0
                         /\ pushes' = << >> /\ fcall' = NoFacadeCall
                         /\ listeners' = {}]_vars
C22_Witness ==
    /\ flast.op = "init" /\ flast.failed /\ flast.writes = 0
    /\ isOnline /\ ~syncEnabled /\ listeners = {}
    /\ albums # << >> /\ remote.albums = << >>

\* ------------------------------------------------------------------ C23
\* Every local album, essay and video has a remote shadow record carrying
\* its local id as localId.
AllShadowed ==
    \A coll \in Collections :
        \A i \in DOMAIN LocalList(coll) : DocsOf(coll, LocalList(coll)[i].id) # {}
\* With the remote reachable the test read of enableCloudSync succeeds, so
\* sync is off on an online browser only where the page started offline and
\* an 'online' event came afterwards.
OnlineAfterOfflineStart == isOnline /\ ~syncEnabled

\* Where sync was enabled at startup the records do get their shadows.
ShadowedWhenSyncEnabled == []<>(syncEnabled => AllShadowed)

\* C23: if the coordinator starts in Offline and later receives a
\* network-available signal while the remote store is reachable, a bulk push
\* is triggered and eventually every local album, essay and video has a
\* remote shadow record carrying its local id as localId.
C23_OnlineSignalPushesAll == OnlineAfterOfflineStart ~> AllShadowed
C23_Witness ==
    /\ OnlineAfterOfflineStart /\ Quiet /\ pushes = << >>
    /\ flast.op = "init" /\ ~AllShadowed

\* ------------------------------------------------------------------ C24
\* Online-Synced: sync enabled and the three subscriptions installed.
OnlineSynced == syncEnabled /\ listeners = Collections

\* The subscriptions are installed by nothing but the return of init.
SyncedOnlyByInit ==
    [][(OnlineSynced' /\ ~OnlineSynced) =>
           (flast' # flast /\ flast'.op = "init")]_vars

\* C24: the coordinator is in Online-Synced only if both the connectivity
\* probe and the initial bulk push succeeded; a failure of the initial bulk
\* push keeps it out of Online-Synced.
C24_SyncedOnlyAfterCleanPush ==
    [][(OnlineSynced' /\ ~OnlineSynced) =>
           (flast'.op = "init" /\ ~flast'.failed)]_vars
C24_Witness ==
    /\ OnlineSynced /\ flast.op = "init" /\ flast.failed
    /\ ~AllShadowed

\* ------------------------------------------------------------------ C25
\* A step of a run of syncLocalToCloud that is a second run: it started
\* after the push of init had completed without a failure, and the local
\* store has not been touched since init returned.
SecondRunStep ==
    /\ pushes' # pushes /\ pushes # << >>
    /\ \A i \in DOMAIN pushes : pushes[i].second
    /\ Quiet /\ flast.op = "init"

\* C25: the bulk push is idempotent: running syncLocalToCloud a second time
\* after a completed first run, with the local store unchanged and the
\* remote store reachable, creates no additional remote record.
C25_SecondPushAddsNothing ==
    [][SecondRunStep => (remote' = remote /\ \A i \in DOMAIN pushes' :
                                                 pushes'[i].pc # "add")]_vars
C25_Witness ==
    /\ Quiet /\ flast.op = "init" /\ syncEnabled
    /\ \E i \in DOMAIN pushes :
           /\ pushes[i].second /\ pushes[i].pc = "query"
           /\ Len(pushes[i].todo) = 1 /\ Len(PushItems) = 2
    /\ Cardinality(DOMAIN remote.albums) + Cardinality(DOMAIN remote.essays)
           + Cardinality(DOMAIN remote.videos) >= 1

\* ------------------------------------------------------------------ C26
\* The local ids that have more than one remote document in a collection.
Doubled(coll) ==
    {id \in {remote[coll][d].localId : d \in DOMAIN remote[coll]} :
        Cardinality(DocsOf(coll, id)) > 1}

\* C26: in every reachable state the remote store holds at most one shadow
\* record per collection for a given localId, for all interleavings of
\* facade creates, the bulk push run by enableCloudSync, and a bulk push
\* triggered by a network-available signal while another push or create is
\* still in progress.
C26_OneShadowPerLocalId == \A coll \in Collections : Doubled(coll) = {}
C26_Witness ==
    /\ Doubled("albums") # {} /\ Quiet /\ pushes = << >>
    /\ flast.op = "createAlbum" /\ ~flast.failed

\* ------------------------------------------------------------------ C27
\* The browser goes from online to offline: in SpecOffline every page load
\* is online, so this is the 'offline' event.
OfflineSignal == isOnline /\ ~isOnline'

\* The 'offline' event changes the isOnline flag and nothing else.
OfflineChangesOnlyTheFlag ==
    [][OfflineSignal =>
           UNCHANGED <<syncEnabled, listeners, pushes, remote, now, fcall,
                       flast, local, currentTab, reloads>>]_vars

\* A facade call returns, offline, from a remote step that failed.
CaughtOffline == flast' # flast /\ ~isOnline /\ flast'.sync /\ flast'.failed

\* Offline, a call whose remote step failed completes as its local call did.
CompletesOffline == [][CaughtOffline => flast'.res = flast'.localRes]_vars

\* But for the key that putAsset drops and for the essay files that
\* getAllEssays could not fetch, the caller gets the local value.
LocalValueOfflineButForKnown ==
    [][(CaughtOffline /\ flast'.op # "putAsset" /\ ~HasUnfetched(flast'.value))
           => flast'.value = flast'.localValue]_vars

\* C27: a network-unavailable signal changes only the online flag:
\* syncEnabled and the installed subscriptions are left unchanged, and every
\* facade operation performed afterwards still completes by catching the
\* remote failure (reads fall back to the local store, writes keep their
\* local result).
C27_OfflineKeepsFacadeWorking ==
    [][/\ OfflineSignal => UNCHANGED <<syncEnabled, listeners>>
       /\ CaughtOffline => /\ flast'.res = flast'.localRes
                           /\ flast'.value = flast'.localValue]_vars
C27_Witness ==
    /\ ~isOnline /\ OnlineSynced /\ Quiet
    /\ flast.op = "putAsset" /\ flast.failed /\ flast.res = "ok"
    /\ flast.value # flast.localValue

\* ------------------------------------------------------------------ C28
\* A change notification is delivered; what it asked for is the last entry
\* of the history.
Notified == reloads' # reloads
\* The tab that shows a collection.
TabShowing(coll) ==
    CASE coll = "albums" -> "photos"
      [] coll = "essays" -> "essays"
      [] coll = "videos" -> "video"

\* C28: on a live-change notification for a collection, a view reload is
\* requested if and only if the currently displayed tab is the one of that
\* collection (albums -> photos tab, essays -> essays tab, videos -> video
\* tab); a notification for a collection that is not displayed triggers no
\* reload and changes no state.
C28_ReloadIffDisplayed ==
    [][Notified =>
        LET n == reloads'[Len(reloads')]
        IN  /\ reloads' = Append(reloads, n)
            /\ n.coll \in listeners
            /\ (n.tab # "none") <=> (currentTab = TabShowing(n.coll))
            /\ n.tab # "none" => n.tab = currentTab
            /\ UNCHANGED <<syncEnabled, remote, now, fcall, flast, local,
                           isOnline, listeners, pushes, currentTab>>]_vars
C28_Witness ==
    /\ Len(reloads) = 2 /\ currentTab = "essays"
    /\ reloads[1] = [coll |-> "videos", tab |-> "none"]
    /\ reloads[2] = [coll |-> "essays", tab |-> "essays"]

\* ------------------------------------------------------------------ C29
\* A list is sorted ascending by order.
ByOrder(list) ==
    \A i, j \in DOMAIN list : i < j => list[i].order <= list[j].order
\* Records of a list with equal order are in ascending order of their id.
TiesById(list) ==
    \A i, j \in DOMAIN list :
        (i < j /\ list[i].order = list[j].order) => list[i].id <= list[j].id
\* The facade has returned a list.
ListRead == flast.op \in {"getAllAlbums", "getAllEssays", "getAllVideos",
                          "getPhotosByAlbum"}

\* The local store lists by order with ties by id, and so does the facade
\* whenever it returns the local list; the remote list is sorted by order.
LocalReadsSorted ==
    /\ \A coll \in Collections :
           ByOrder(LocalList(coll)) /\ TiesById(LocalList(coll))
    /\ ListRead => /\ ByOrder(flast.localValue.list)
                   /\ TiesById(flast.localValue.list)
                   /\ ByOrder(flast.value.list)

\* C29: every read of an ordered collection, through the local store or
\* through the facade with sync enabled, returns the records sorted
\* ascending by order, and records with equal order appear in ascending
\* order of their local insertion id.
C29_ReadsSortedTiesById ==
    /\ \A coll \in Collections :
           ByOrder(LocalList(coll)) /\ TiesById(LocalList(coll))
    /\ ListRead => ByOrder(flast.value.list) /\ TiesById(flast.value.list)
C29_Witness ==
    /\ flast.op = "getAllAlbums" /\ flast.sync /\ ~flast.failed
    /\ Len(flast.value.list) = 2
    /\ flast.value.list[1].order = flast.value.list[2].order
    /\ flast.value.list[1].id > flast.value.list[2].id

\* ------------------------------------------------------------------ C30
\* A rename of the given kind completes in this step.
RenameStep(op, recs, recsAfter) ==
    last'.op = op /\ (last' # last \/ recsAfter # recs)
\* What a rename by last'.id may do to its store: nothing and a not-found
\* error when the id is in no record, else the record's own name or title
\* and updatedAt and nothing more.
RenameEffect(recs, recsAfter, field, notFound) ==
    LET id == last'.id
    IN  IF id \notin DOMAIN recs
        THEN last'.res = notFound /\ recsAfter = recs
        ELSE /\ last'.res = "ok"
             /\ DOMAIN recsAfter = DOMAIN recs
             /\ \A other \in DOMAIN recs \ {id} : recsAfter[other] = recs[other]
             /\ DOMAIN recsAfter[id] = DOMAIN recs[id] \cup {"updatedAt"}
             /\ \A k \in DOMAIN recs[id] \ {field, "updatedAt"} :
                    recsAfter[id][k] = recs[id][k]
             /\ recsAfter[id].order = recs[id].order
             /\ recsAfter[id].createdAt = recs[id].createdAt
             /\ recsAfter[id].updatedAt = now

\* C30: renameAlbum(id, name) and renameEssay(id, title) fail with a
\* not-found error when no record with that id exists, and in that case no
\* record is created or modified; when the record exists only its
\* name/title and updatedAt change, while its id, order and createdAt are
\* unchanged.
C30_RenameTouchesNameOnly ==
    [][/\ RenameStep("renameAlbum", albums, albums') =>
              /\ RenameEffect(albums, albums', "name", "Album not found")
              /\ UNCHANGED <<assets, photos, essays, videos, nextId>>
       /\ RenameStep("renameEssay", essays, essays') =>
              /\ RenameEffect(essays, essays', "title", "Essay not found")
              /\ UNCHANGED <<assets, albums, photos, videos, nextId>>]_vars
C30_Witness ==
    /\ \E id \in DOMAIN albums :
           /\ albums[id].name = "b" /\ "updatedAt" \in DOMAIN albums[id]
           /\ albums[id].updatedAt > albums[id].createdAt
    /\ last.op = "renameEssay" /\ last.res = "Essay not found"

\* ------------------------------------------------------------------ C31
\* The four deletes of the local Database, on ids that are in the store and
\* on ids that are not, with calls overlapping at their awaits.
NextDeletes ==
    \/ \E name \in {"a"} : createAlbumRead(name) /\ UNCHANGED cloud
    \/ \E i \in 1..MaxProcs : createAlbumAdd(i) /\ UNCHANGED cloud
    \/ \E albumId \in AlbumIdInputs, file \in {<<72, 105>>} : addPhotoRead(albumId, file) /\ UNCHANGED cloud
    \/ \E i \in 1..MaxProcs : addPhotoAdd(i) /\ UNCHANGED cloud
    \/ \E file \in {<<72, 105>>}, title \in {"a"} : addEssayRead(file, title) /\ UNCHANGED cloud
    \/ \E i \in 1..MaxProcs : addEssayAdd(i) /\ UNCHANGED cloud
    \/ \E url \in VideoUrlInputs : addVideoRead(url) /\ UNCHANGED cloud
    \/ \E i \in 1..MaxProcs : addVideoAdd(i) /\ UNCHANGED cloud
    \/ \E photoId \in 1..nextId.photos, requestOk \in BOOLEAN :
           removePhoto(photoId, requestOk) /\ UNCHANGED cloud
    \/ \E id \in 1..nextId.essays : deleteEssay(id) /\ UNCHANGED cloud
    \/ \E id \in 1..nextId.videos : deleteVideo(id) /\ UNCHANGED cloud
    \/ \E id \in AlbumIdInputs : deleteAlbumRead(id) /\ UNCHANGED cloud
    \/ \E i \in 1..MaxProcs, requestOk \in BOOLEAN : deleteAlbumRemovePhoto(i, requestOk) /\ UNCHANGED cloud
    \/ \E i \in 1..MaxProcs : deleteAlbumDelete(i) /\ UNCHANGED cloud

SpecDeletes == Init /\ [][NextDeletes]_vars

\* A delete of the given kind returns in this step, and the store held no
\* record with its id when it ran.
DeleteOfMissing(op, recs) ==
    /\ last'.op = op
    /\ last' # last
    /\ last'.id \notin DOMAIN recs

\* C31: a removePhoto, deleteEssay, deleteVideo or deleteAlbum whose id is
\* in no record of its store fails: it returns a failure (NotFound, or the
\* error of its request when the request itself failed) and never "ok".
C31_DeleteOfMissingFails ==
    [][/\ DeleteOfMissing("removePhoto", photos) => last'.res # "ok"
       /\ DeleteOfMissing("deleteEssay", essays) => last'.res # "ok"
       /\ DeleteOfMissing("deleteVideo", videos) => last'.res # "ok"
       /\ (last'.op = "deleteAlbum" /\ last' # last /\ "existed" \notin last'.tags)
              => last'.res # "ok"]_vars

\* ------------------------------------------------------------------ C32
\* The three bulk operations: a caller of the local Database fills the
\* store, exports and restores, and deletes albums with their photos; then
\* the page loads the cloud layer, whose init runs the bulk push.  Every
\* request of the cascade and of the push succeeds or fails.
BeforeCloud == fcall.op = "none" /\ flast.op = "none"

NextBulk ==
    \/ BeforeCloud /\ Idle /\ \E name \in {"a"} : createAlbumRead(name) /\ UNCHANGED cloud
    \/ \E i \in 1..MaxProcs : createAlbumAdd(i) /\ UNCHANGED cloud
    \/ BeforeCloud /\ Idle /\ \E albumId \in DOMAIN albums, file \in {<<72, 105>>} :
           addPhotoRead(albumId, file) /\ UNCHANGED cloud
    \/ \E i \in 1..MaxProcs : addPhotoAdd(i) /\ UNCHANGED cloud
    \/ BeforeCloud /\ Idle /\ \E url \in VideoUrlInputs : addVideoRead(url) /\ UNCHANGED cloud
    \/ \E i \in 1..MaxProcs : addVideoAdd(i) /\ UNCHANGED cloud
    \/ BeforeCloud /\ Idle /\ exportAll /\ UNCHANGED cloud
    \/ BeforeCloud /\ Restoring /\ \E data \in ImportInputs : importAll(data) /\ UNCHANGED cloud
    \/ BeforeCloud /\ procs = << >> /\ \E id \in DOMAIN albums :
           deleteAlbumRead(id) /\ UNCHANGED cloud
    \/ \E i \in 1..MaxProcs, requestOk \in BOOLEAN :
           deleteAlbumRemovePhoto(i, requestOk) /\ UNCHANGED cloud
    \/ \E i \in 1..MaxProcs : deleteAlbumDelete(i) /\ UNCHANGED cloud
    \/ procs = << >> /\ \E ok \in BOOLEAN : Firebase_init(TRUE, ok)
    \/ syncLocalToCloud
    \/ \E ok \in BOOLEAN : syncToCloud_query(ok)
    \/ \E ok \in BOOLEAN : syncToCloud_add(ok)

SpecBulk == Init /\ [][NextBulk]_vars

\* The number of entries of a snapshot's video list whose url parses.
Parseable(data) ==
    Len(SelectSeq(data.videos, LAMBDA video : parseVideoUrl(video.url).provider # "null"))

\* importAll goes on after the video whose addVideo failed.
ImportContinues ==
    counts'.imports > counts.imports =>
        \A data \in ImportInputs :
            (~IncompatibleVersion(data) /\ importAll(data))
                => Len(getAllVideos') = Parseable(data)

\* deleteAlbum goes on with the next photo after a removePhoto that failed.
CascadeContinues ==
    \A i \in 1..MaxProcs :
        (deleteAlbumRemovePhoto(i, FALSE) /\ Len(procs[i].todo) > 1)
            => /\ Len(procs') = Len(procs)
               /\ procs'[i].todo = Tail(procs[i].todo)

\* syncLocalToCloud goes on with the next record after a sync*ToCloud whose
\* query or addDoc failed.
PushContinues ==
    ((syncToCloud_query(FALSE) \/ syncToCloud_add(FALSE)) /\ Len(fcall.todo) > 1)
        => /\ fcall'.pc = "query"
           /\ fcall'.todo = Tail(fcall.todo)
           /\ fcall'.failed

\* The bulk push alone continues past the failure of a record.
PushContinuesPastFailure == [][PushContinues]_vars
\* A push whose first record failed and whose second record was added.
PushContinuesPastFailure_Seen ==
    /\ flast.op = "init" /\ flast.failed /\ flast.writes = 1
    /\ \E d \in DOMAIN remote.albums : remote.albums[d].localId = 2
    /\ DocsOf("albums", 1) = {}

\* C32: when one item fails during importAll (after the version check),
\* during the loop over the photos of deleteAlbum, or during the bulk push,
\* the remaining items of that bulk operation are still processed.
C32_BulkContinuesPastFailure ==
    [][ImportContinues /\ CascadeContinues /\ PushContinues]_vars

\* ------------------------------------------------------------ bootstrap
\* The DOMContentLoaded handler of the cloud layer.  window.db is there
\* when it runs (the Database script has set it), so its first loop is not
\* entered; it constructs the FirebaseDatabase and awaits init(), whose
\* first await is waitForFirebase().
WaitForFirebaseAttempts == 100

DOMContentLoaded ==
    /\ boot.pc = "none"
    /\ boot' = [boot EXCEPT !.pc = "wait", !.attempts = 0]
    /\ UNCHANGED <<base, compress, isAdminMode, portfolio>>

\* The Firebase module script finishes loading: window.firebaseReady,
\* window.firestore and window.FirebaseFunctions are set.
firebaseLoaded ==
    /\ ~boot.ready
    /\ boot' = [boot EXCEPT !.ready = TRUE]
    /\ UNCHANGED <<base, compress, isAdminMode, portfolio>>

\* One turn of the loop of waitForFirebase: 100 ms of sleep, attempts++.
waitForFirebase_poll ==
    /\ boot.pc = "wait"
    /\ ~boot.ready /\ boot.attempts < WaitForFirebaseAttempts
    /\ boot' = [boot EXCEPT !.attempts = @ + 1]
    /\ UNCHANGED <<base, compress, isAdminMode, portfolio>>

\* waitForFirebase without the test after its loop: it returns normally
\* when the attempts are used up.
WaitReturnsWithoutTest ==
    /\ boot.pc = "wait"
    /\ boot.ready \/ boot.attempts >= WaitForFirebaseAttempts
    /\ boot' = [boot EXCEPT !.pc = "localInit"]
    /\ UNCHANGED <<base, compress, isAdminMode, portfolio>>

\* The loop of waitForFirebase is left: it throws when Firebase is still
\* not there, which init passes on to the handler's catch; window.db is
\* not assigned.
waitForFirebase_return ==
    /\ boot.pc = "wait"
    /\ boot.ready \/ boot.attempts >= WaitForFirebaseAttempts
    /\ boot' = [boot EXCEPT !.pc = IF boot.ready THEN "localInit" ELSE "failed"]
    /\ UNCHANGED <<base, compress, isAdminMode, portfolio>>

\* init: `await this.localDb.init()`, which opens the IndexedDB database
\* and rejects when the open request fails; init passes that on too.
init_localDb(ok) ==
    /\ boot.pc = "localInit"
    /\ boot' = [boot EXCEPT !.pc = IF ok THEN "cloud" ELSE "failed"]
    /\ UNCHANGED <<base, compress, isAdminMode, portfolio>>

\* The rest of init is Firebase_init; when it has returned the handler
\* assigns window.db = firebaseDb.
init_returned ==
    /\ boot.pc = "cloud"
    /\ Quiet /\ flast.op = "init"
    /\ boot' = [boot EXCEPT !.pc = "done", !.db = "firebase"]
    /\ UNCHANGED <<base, compress, isAdminMode, portfolio>>

\* ------------------------------------------------------------------ C33
\* A page load with its caller: the App calls window.db, which is the local
\* Database until the handler has replaced it.
NextBoot ==
    \/ DOMContentLoaded
    \/ firebaseLoaded
    \/ waitForFirebase_poll
    \/ waitForFirebase_return
    \/ \E ok \in BOOLEAN : init_localDb(ok)
    \/ boot.pc = "cloud" /\ flast.op # "init" /\ \E onLine \in BOOLEAN, ok \in BOOLEAN :
           Firebase_init(onLine, ok)
    \/ syncLocalToCloud
    \/ \E ok \in BOOLEAN : syncToCloud_query(ok)
    \/ \E ok \in BOOLEAN : syncToCloud_add(ok)
    \/ init_returned
    \/ boot.db = "local" /\ \E name \in {"a"} : createAlbumRead(name) /\ UNCHANGED cloud
    \/ \E i \in 1..MaxProcs : createAlbumAdd(i) /\ UNCHANGED cloud
    \/ boot.db = "local" /\ \E id \in DOMAIN albums, name \in {"b"} :
           renameAlbum(id, name) /\ UNCHANGED cloud
    \/ boot.db = "firebase" /\ procs = << >> /\ CanCreate
           /\ \E name \in {"a"} : Firebase_createAlbum(name)
    \/ Firebase_createAlbum_local
    \/ \E ok \in BOOLEAN : Firebase_createAlbum_remote(ok)

SpecBoot == Init /\ [][NextBoot]_vars

\* The handler has caught the error of init.
InitFailed == boot.pc = "failed"

\* C33: when Firebase is not ready after the 100 polls of waitForFirebase,
\* or init throws, window.db stays the local Database: it is never
\* replaced afterwards, the failed initialisation leaves the local store as
\* it was, and the calls made afterwards run on the local Database alone,
\* with sync disabled and no remote call.
C33_FailedInitKeepsLocalStore ==
    [][/\ (boot.pc = "wait" /\ boot'.pc # "wait" /\ ~boot.ready) => InitFailed'
       /\ (boot' # boot /\ boot'.pc \in {"wait", "failed"}) => UNCHANGED local
       /\ InitFailed => /\ boot.db = "local" /\ boot'.db = "local"
                        /\ ~syncEnabled /\ ~syncEnabled'
                        /\ UNCHANGED <<remote, fcall, flast>>]_vars

\* All 100 polls went by without Firebase, and an album was created
\* and renamed through window.db after that.
C33_Witness ==
    /\ InitFailed
    /\ boot.attempts = WaitForFirebaseAttempts /\ ~boot.ready
    /\ boot.db = "local"
    /\ last.op = "renameAlbum" /\ last.res = "ok"
    /\ \E id \in DOMAIN albums : albums[id].name = "b"

\* -------------------------------------------------------- compressImage
\* Utils.compressImage(file) with its default maxSizeMB.  The canvas and
\* its encoder are the browser's: what is modelled of them is the size of
\* the blob that canvas.toBlob hands to its callback.
maxSizeMB == 2
maxBytes == maxSizeMB * 1024 * 1024

\* file.type of the files that pass Utils.isValidImage and that a canvas
\* encodes.
ImageTypes == {"image/jpeg", "image/png", "image/webp"}
\* Blob sizes in bytes; 0 stands for the null blob.
BlobSizes == {1048576, 2097152, 2097153, 3145728}

\* canvas.toBlob(callback, type, quality) uses quality for image/jpeg and
\* image/webp only; for these a lower quality gives no larger blob.  The
\* first blob of a call is of any size.
Encodes(type, previous, size) ==
    \/ previous = 0
    \/ type = "image/png" /\ size = previous
    \/ type # "image/png" /\ size <= previous

\* `quality <= 0.1` after the given number of `quality -= 0.1`, starting
\* from 0.9, in IEEE 754 doubles: the eighth subtraction leaves
\* 0.10000000000000014, which is above 0.1, and the ninth 1.39e-16.
QualityAtMostTenth(decrements) == decrements >= 9
\* The call up to img.onload / img.onerror: onerror rejects, onload draws
\* the canvas and calls tryCompress with quality 0.9.
compressImage(type, loaded) ==
    /\ compress.pc # "try"
    /\ compress' = IF loaded
                   THEN [NoCompress EXCEPT !.pc = "try", !.type = type]
                   ELSE [NoCompress EXCEPT !.pc = "rejected", !.type = type,
                            !.res = "Failed to load image"]
    /\ UNCHANGED <<base, boot, isAdminMode, portfolio>>

\* The callback of canvas.toBlob in tryCompress, given the blob.
tryCompress(size) ==
    /\ compress.pc = "try"
    /\ size = 0 \/ Encodes(compress.type, compress.size, size)
    /\ compress' =
           IF size = 0
           THEN [compress EXCEPT !.pc = "rejected", !.size = 0,
                    !.res = "Failed to compress image"]
           ELSE IF size <= maxBytes \/ QualityAtMostTenth(compress.quality)
           THEN [compress EXCEPT !.pc = "resolved", !.size = size, !.res = "ok"]
           ELSE [compress EXCEPT !.size = size, !.quality = @ + 1]
    /\ UNCHANGED <<base, boot, isAdminMode, portfolio>>

\* ------------------------------------------------------------------ C34
NextCompress ==
    \/ \E type \in ImageTypes, loaded \in BOOLEAN : compressImage(type, loaded)
    \/ \E size \in BlobSizes \cup {0} : tryCompress(size)

\* The browser calls the callback of every toBlob.
SpecCompressLive ==
    Init /\ [][NextCompress]_vars
         /\ WF_vars(\E size \in BlobSizes \cup {0} : tryCompress(size))

Settled == compress.pc \in {"resolved", "rejected"}

\* Every call of compressImage settles, after ten blobs at most.
CompressImageTerminates ==
    /\ (compress.pc = "try") ~> Settled
    /\ [](compress.quality <= 9)
\* The last try: nine subtractions have been made.
CompressImageTerminates_Seen ==
    compress.pc = "resolved" /\ compress.quality = 9

\* C34: compressImage always terminates, and the blob it resolves with is
\* at most maxSizeMB (2 MB) in size.
C34_CompressedAtMostMaxSize ==
    /\ (compress.pc = "try") ~> Settled
    /\ [](compress.pc = "resolved" => compress.size <= maxBytes)

\* ------------------------------------------------------------------ App
\* The handlers of the App that write to window.db, here the local
\* Database.  A handler that asks for confirmation or for a new name does
\* nothing when the user declines; a handler on the open gallery acts on
\* this.currentAlbum, an album that openGallery has shown.
App_toggleAdminMode(enabled) ==
    /\ isAdminMode' = enabled
    /\ UNCHANGED <<base, boot, compress, portfolio>>

\* 'album-form' submit.
App_albumFormSubmit(albumName) == createAlbumRead(albumName) /\ UNCHANGED cloud
\* 'rename-album-btn' click.
App_renameAlbumClick(id, newName) == renameAlbum(id, newName) /\ UNCHANGED cloud
\* 'delete-album-btn' click, confirmed.
App_deleteAlbumClick(id) == deleteAlbumRead(id) /\ UNCHANGED cloud
\* addPhotosToAlbum with one valid image, as compressImage returned it.
App_addPhotosToAlbum(albumId, file) == addPhotoRead(albumId, file) /\ UNCHANGED cloud
\* removePhoto, confirmed.
App_removePhoto(photoId, requestOk) == removePhoto(photoId, requestOk) /\ UNCHANGED cloud
\* addEssays with one PDF.
App_addEssays(file, title) == addEssayRead(file, title) /\ UNCHANGED cloud
\* renameEssay: the essay is looked up in getAllEssays first.
App_renameEssay(essayId, newTitle) ==
    /\ essayId \in Range(getAllEssays)
    /\ renameEssay(essayId, newTitle) /\ UNCHANGED cloud
\* deleteEssay, confirmed.
App_deleteEssay(essayId) == deleteEssay(essayId) /\ UNCHANGED cloud
\* 'add-video-form' submit.
App_videoFormSubmit(url) ==
    (addVideoInvalid(url) \/ addVideoRead(url)) /\ UNCHANGED cloud
\* deleteVideo, confirmed.
App_deleteVideo(videoId) == deleteVideo(videoId) /\ UNCHANGED cloud
\* updateAsset, exportAllData and importAllData return at once unless
\* isAdminMode.
App_updateAsset(assetKey, file) ==
    /\ isAdminMode
    /\ putAsset(assetKey, file) /\ UNCHANGED cloud
App_exportAllData ==
    /\ isAdminMode
    /\ exportAll /\ UNCHANGED cloud
App_importAllData(data) ==
    /\ isAdminMode
    /\ importAll(data) /\ UNCHANGED cloud

\* ------------------------------------------------------------------ C35
\* The App after init, with a user who enters and leaves admin mode and
\* triggers the handlers in either mode, creating up to MaxMirrored records;
\* every request succeeds.
NextApp ==
    \/ \E enabled \in BOOLEAN : App_toggleAdminMode(enabled)
    \/ CanCreate /\ \E albumName \in {"a"} : App_albumFormSubmit(albumName)
    \/ \E i \in 1..MaxProcs : createAlbumAdd(i) /\ UNCHANGED cloud
    \/ \E id \in DOMAIN albums, newName \in {"b"} : App_renameAlbumClick(id, newName)
    \/ \E id \in DOMAIN albums : App_deleteAlbumClick(id)
    \/ \E i \in 1..MaxProcs : deleteAlbumRemovePhoto(i, TRUE) /\ UNCHANGED cloud
    \/ \E i \in 1..MaxProcs : deleteAlbumDelete(i) /\ UNCHANGED cloud
    \/ CanCreate /\ \E albumId \in DOMAIN albums, file \in {<<72, 105>>} :
           App_addPhotosToAlbum(albumId, file)
    \/ \E i \in 1..MaxProcs : addPhotoAdd(i) /\ UNCHANGED cloud
    \/ \E photoId \in DOMAIN photos : App_removePhoto(photoId, TRUE)
    \/ CanCreate /\ \E file \in {<<72, 105>>}, title \in {"a"} : App_addEssays(file, title)
    \/ \E i \in 1..MaxProcs : addEssayAdd(i) /\ UNCHANGED cloud
    \/ \E essayId \in DOMAIN essays, newTitle \in {"b"} : App_renameEssay(essayId, newTitle)
    \/ \E essayId \in DOMAIN essays : App_deleteEssay(essayId)
    \/ CanCreate /\ \E url \in VideoUrlInputs : App_videoFormSubmit(url)
    \/ \E i \in 1..MaxProcs : addVideoAdd(i) /\ UNCHANGED cloud
    \/ \E videoId \in DOMAIN videos : App_deleteVideo(videoId)
    \/ \E assetKey \in AssetKeyInputs, file \in {<<72, 105>>} :
           App_updateAsset(assetKey, file)
    \/ procs = << >> /\ App_exportAllData
    \/ Restoring /\ \E data \in ImportInputs : App_importAllData(data)

SpecApp == Init /\ [][NextApp]_vars

\* The three handlers that test isAdminMode write nothing without it.
GuardedHandlersNeedAdmin ==
    [][~isAdminMode => UNCHANGED <<assets, counts, exported>>]_vars
\* An asset was uploaded and a document imported, in admin mode.
GuardedHandlersNeedAdmin_Seen ==
    /\ isAdminMode /\ assets # << >> /\ counts.imports = 1

\* C35: while isAdminMode is false and no call started earlier is still in
\* progress, no handler of the App changes the store or starts a call that
\* will.
C35_NoMutationOutsideAdminMode ==
    [][(~isAdminMode /\ procs = << >>) => UNCHANGED <<store, procs>>]_vars

\* ------------------------------------------------- initializeDefaultVideos
defaultVideos == <<"https://vimeo.com/897021152",
                   "https://youtu.be/6fWYLFodV78?si=faMzDuSLOlI8qURQ",
                   "https://youtu.be/5E3XuSymtYQ?si=Sx8vyJ8vfHPEDMcU">>


\* App.init calls it before it sets up the event listeners, so no handler
\* runs meanwhile: the addVideo calls, each awaited and each in its own
\* try/catch, run one after another; their requests succeed.
initializeDefaultVideos ==
    /\ procs = << >>
    /\ LET items == [i \in DOMAIN defaultVideos |->
                        [url |-> defaultVideos[i],
                         provider |-> parseVideoUrl(defaultVideos[i]).provider,
                         embedId |-> parseVideoUrl(defaultVideos[i]).embedId]]
           seeded == AddEach(videos, items, nextId.videos, FALSE)
       IN  IF Len(getAllVideos) = 0
           THEN /\ videos' = seeded
                /\ nextId' = [nextId EXCEPT !.videos = @ + Len(items)]
                /\ assigned' = assigned \cup OrdersOf(albums, photos, essays, seeded)
           ELSE UNCHANGED <<videos, nextId, assigned>>
    /\ last' = [NoCall EXCEPT !.op = "initializeDefaultVideos"]
    /\ UNCHANGED <<assets, albums, photos, essays, procs, exported, touched,
                   dirty, counts, source>>

\* ------------------------------------------------------------------ C36
\* Page loads, each running App.init, and a user who deletes and reorders
\* videos in between.
NextSeed ==
    \/ nextId.videos <= MaxSeeded /\ initializeDefaultVideos /\ UNCHANGED cloud
    \/ \E videoId \in DOMAIN videos : App_deleteVideo(videoId)
    \/ \E idsInOrder \in ReorderInputs(videos, nextId.videos) :
           reorderVideos(idsInOrder) /\ UNCHANGED cloud

SpecSeed == Init /\ [][NextSeed]_vars

\* The first start seeds the three default videos in their order, and a
\* start that finds a video adds nothing.
SeedsEmptyStoreOnly ==
    [][initializeDefaultVideos =>
          /\ nextId.videos = 1 => UrlsOf([i \in DOMAIN getAllVideos' |->
                                     videos'[getAllVideos'[i]]]) = defaultVideos
          /\ videos # << >> => videos' = videos]_vars
\* A start on a store in which the user has left one video.
SeedsEmptyStoreOnly_Seen ==
    /\ last.op = "initializeDefaultVideos"
    /\ Len(getAllVideos) = 1

\* C36: initializeDefaultVideos adds the three default videos, in the
\* listed order, when the store has never held a video, and adds nothing
\* on every later start, also after the user has deleted all videos.
C36_DefaultsSeededOnce ==
    [][initializeDefaultVideos =>
          IF nextId.videos = 1
          THEN UrlsOf([i \in DOMAIN getAllVideos' |-> videos'[getAllVideos'[i]]])
                   = defaultVideos
          ELSE videos' = videos]_vars

\* ------------------------------------------------------------------ C37
\* The facade's deletes beside the bulk pushes, the remote store reachable:
\* the page loaded online, creates and deletes go through the facade one
\* after the other, an 'online' event starts a run of syncLocalToCloud that
\* no one awaits, and every request resolves.
DeleteContinuation ==
    \/ CallContinuation
    \/ Firebase_deleteVideo_remote(TRUE)
    \/ Firebase_deleteEssay_remote(TRUE)
    \/ Firebase_deleteAlbum_removePhoto(TRUE)
    \/ Firebase_deleteAlbum_local

NextDeleteLive ==
    \/ ~syncEnabled /\ Firebase_init(TRUE, TRUE)
    \/ syncLocalToCloud
    \/ syncEnabled /\ online
    \/ \E i \in 1..MaxPushes : online_syncLocalToCloud(i)
    \/ \E i \in 1..MaxPushes : online_syncToCloud_query(i, TRUE)
    \/ \E i \in 1..MaxPushes : online_syncToCloud_add(i, TRUE)
    \/ syncEnabled /\ CanCreate /\ \E name \in {"a"} : Firebase_createAlbum(name)
    \/ Firebase_createAlbum_local
    \/ Firebase_createAlbum_remote(TRUE)
    \/ syncEnabled /\ CanCreate /\ \E url \in {"https://youtu.be/dQw4w9WgXcQ"} :
           Firebase_addVideo(url)
    \/ Firebase_addVideo_local
    \/ Firebase_addVideo_remote(TRUE)
    \/ syncEnabled /\ CanCreate /\ \E file \in {<<72, 105>>}, title \in {"a"} :
           Firebase_addEssay(file, title)
    \/ Firebase_addEssay_local
    \/ Firebase_addEssay_remote(TRUE)
    \/ \E id \in DOMAIN videos : Firebase_deleteVideo(id)
    \/ Firebase_deleteVideo_remote(TRUE)
    \/ \E id \in DOMAIN essays : Firebase_deleteEssay(id)
    \/ Firebase_deleteEssay_remote(TRUE)
    \/ \E id \in DOMAIN albums : Firebase_deleteAlbum(id)
    \/ Firebase_deleteAlbum_local
    \/ \E coll \in Collections, d \in 1..remote.nextDoc : deleteDoc(coll, d, TRUE)

\* A call that was started goes on, each run of syncLocalToCloud goes on,
\* and the remote answers each deleteDoc.
SpecDeleteLive ==
    /\ Init /\ [][NextDeleteLive]_vars
    /\ WF_vars(DeleteContinuation)
    /\ \A i \in 1..MaxPushes : WF_vars(PushContinuation(i))
    /\ \A coll \in Collections, d \in 1..(2 * MaxMirrored) :
           WF_vars(deleteDoc(coll, d, TRUE))

\* The local record with this id was created and is no longer in its store.
DeletedLocally(coll, id) ==
    /\ syncEnabled
    /\ id < nextId[coll]
    /\ id \notin DOMAIN Recs(<<coll>>)

\* Albums have no case here: the local deleteAlbum never removes the record.
\* C37: with sync enabled and the remote store reachable, once deleteAlbum,
\* deleteVideo or deleteEssay has deleted the local record with an id,
\* eventually no remote document of that collection carries that localId.
C37_DeletedRecordLosesItsShadows ==
    \A coll \in Collections, id \in 1..MaxRecords :
        DeletedLocally(coll, id) ~> (DocsOf(coll, id) = {})
\* A delete has returned, its record is gone from the local store, no
\* request is in flight, and a document with its localId is in the remote
\* store: the addDoc of a push that had looked before the delete.
C37_Witness ==
    \E coll \in Collections, id \in 1..MaxRecords :
        /\ DeletedLocally(coll, id)
        /\ flast.op \in {"deleteVideo", "deleteEssay"}
        /\ Quiet /\ pushes = << >> /\ remote.deleting = {}
        /\ DocsOf(coll, id) # {}

\* ------------------------------------------------------------------ C38
\* Renames, reorders and list reads through the facade, the remote store
\* reachable: the page loaded online, the records are created through the
\* facade, each call is awaited before the next and every remote request
\* resolves.
NextReflect ==
    \/ ~syncEnabled /\ Firebase_init(TRUE, TRUE)
    \/ syncLocalToCloud
    \/ syncEnabled /\ CanCreate /\ \E name \in {"a"} : Firebase_createAlbum(name)
    \/ Firebase_createAlbum_local
    \/ Firebase_createAlbum_remote(TRUE)
    \/ syncEnabled /\ CanCreate /\ \E url \in {"https://youtu.be/dQw4w9WgXcQ"} :
           Firebase_addVideo(url)
    \/ Firebase_addVideo_local
    \/ Firebase_addVideo_remote(TRUE)
    \/ syncEnabled /\ CanCreate /\ \E file \in {<<72, 105>>}, title \in {"a"} :
           Firebase_addEssay(file, title)
    \/ Firebase_addEssay_local
    \/ Firebase_addEssay_remote(TRUE)
    \/ \E id \in DOMAIN albums, name \in {"b"} : Firebase_renameAlbum(id, name)
    \/ \E id \in DOMAIN essays, title \in {"b"} : Firebase_renameEssay(id, title)
    \/ \E idsInOrder \in ReorderInputs(albums, nextId.albums) :
           IsPermutation(idsInOrder, DOMAIN albums) /\ Firebase_reorderAlbums(idsInOrder)
    \/ \E idsInOrder \in ReorderInputs(essays, nextId.essays) :
           IsPermutation(idsInOrder, DOMAIN essays) /\ Firebase_reorderEssays(idsInOrder)
    \/ \E idsInOrder \in ReorderInputs(videos, nextId.videos) :
           IsPermutation(idsInOrder, DOMAIN videos) /\ Firebase_reorderVideos(idsInOrder)
    \/ syncEnabled /\ Firebase_getAllAlbums(TRUE)
    \/ syncEnabled /\ Firebase_getAllEssays(TRUE, DOMAIN remote.essays)
    \/ syncEnabled /\ Firebase_getAllVideos(TRUE)

SpecReflect == Init /\ [][NextReflect]_vars

\* The collection a list read of the facade reads.
ReadOf(op) ==
    CASE op = "getAllAlbums" -> "albums"
      [] op = "getAllEssays" -> "essays"
      [] op = "getAllVideos" -> "videos"
\* The name, title or url of a local record.
LocalLabel(coll, id) ==
    CASE coll = "albums" -> albums[id].name
      [] coll = "essays" -> essays[id].title
      [] coll = "videos" -> videos[id].url
\* The ids of the records a list read returned, in the order returned.
ReturnedIds == [i \in DOMAIN flast.value.list |-> flast.value.list[i].id]
\* A facade list read has just returned from the remote store.
ListReadReturned ==
    /\ Quiet /\ flast.sync /\ ~flast.failed
    /\ flast.op \in {"getAllAlbums", "getAllEssays", "getAllVideos"}
NamesReflected ==
    \A i \in DOMAIN flast.value.list :
        flast.value.list[i].id \in DOMAIN Recs(<<ReadOf(flast.op)>>)
            => flast.value.list[i].label =
                   LocalLabel(ReadOf(flast.op), flast.value.list[i].id)
OrderReflected ==
    Restrict(ReturnedIds, DOMAIN Recs(<<ReadOf(flast.op)>>))
        = Restrict(List(<<ReadOf(flast.op)>>), Range(ReturnedIds))

\* C38: with sync enabled and the remote store reachable, a facade list read
\* that follows a completed rename or reorder returns, for each record of the
\* local store, its current name or title, and returns the records in the
\* relative order of the local store's own list.
C38_ListReadReflectsRenameAndReorder ==
    ListReadReturned => NamesReflected /\ OrderReflected
\* A list read returned after a rename: the record it returned carries "b"
\* in the local store.
C38_Witness ==
    /\ ListReadReturned
    /\ \E i \in DOMAIN flast.value.list :
           /\ flast.value.list[i].id \in DOMAIN Recs(<<ReadOf(flast.op)>>)
           /\ ReadOf(flast.op) # "videos"
           /\ LocalLabel(ReadOf(flast.op), flast.value.list[i].id) = "b"

\* ------------------------------------------------------------------ C39
\* A restore through the facade, the remote store reachable: the page loaded
\* online, records are created through the facade and mirrored, the store is
\* exported and the document restored, and the lists are read afterwards;
\* every remote request resolves.
NextRestore ==
    \/ ~syncEnabled /\ Idle /\ Firebase_init(TRUE, TRUE)
    \/ syncLocalToCloud
    \/ syncToCloud_query(TRUE)
    \/ syncToCloud_add(TRUE)
    \/ syncEnabled /\ Idle /\ CanCreate /\ \E name \in {"a"} :
           Firebase_createAlbum(name)
    \/ Firebase_createAlbum_local
    \/ Firebase_createAlbum_remote(TRUE)
    \/ syncEnabled /\ Idle /\ CanCreate /\ \E url \in {"https://youtu.be/dQw4w9WgXcQ"} :
           Firebase_addVideo(url)
    \/ Firebase_addVideo_local
    \/ Firebase_addVideo_remote(TRUE)
    \/ syncEnabled /\ Idle /\ CanCreate /\ \E file \in {<<72, 105>>}, title \in {"a"} :
           Firebase_addEssay(file, title)
    \/ Firebase_addEssay_local
    \/ Firebase_addEssay_remote(TRUE)
    \/ syncEnabled /\ Idle /\ Firebase_exportAll
    \/ syncEnabled /\ Restoring /\ fcall = NoFacadeCall /\ Firebase_importAll(exported)
    \/ syncEnabled /\ Firebase_getAllAlbums(TRUE)
    \/ syncEnabled /\ Firebase_getAllEssays(TRUE, DOMAIN remote.essays)
    \/ syncEnabled /\ Firebase_getAllVideos(TRUE)

SpecRestore == Init /\ [][NextRestore]_vars

\* importAll has completed, its push included, and a list read made after it
\* has returned from the remote store.
ReadAfterImport ==
    /\ ListReadReturned
    /\ counts.imports > 0
    /\ last.op = "importAll" /\ last.res = "ok"
\* The list returned holds each record of the local store once and nothing
\* else.
ExactlyTheLocalRecords ==
    /\ Range(ReturnedIds) = DOMAIN Recs(<<ReadOf(flast.op)>>)
    /\ Len(ReturnedIds) = Cardinality(DOMAIN Recs(<<ReadOf(flast.op)>>))

\* C39: with sync enabled and the remote store reachable, after importAll has
\* completed, the facade's getAllAlbums, getAllEssays and getAllVideos return
\* exactly the records recreated from the snapshot, and no shadow of a local
\* record that the import cleared.
C39_ReadAfterImportIsTheSnapshot == ReadAfterImport => ExactlyTheLocalRecords
\* A list read made after an import of a snapshot with a record in that
\* collection has returned.
C39_Witness ==
    /\ ReadAfterImport
    /\ Recs(<<ReadOf(flast.op)>>) # << >>

\* -------------------------------------------------------------- script.js
\* PortfolioApp keeps albums and essays in two arrays and saves each array
\* whole, under one key, in IndexedDB.  An album is its name and the number
\* of its photos; an essay is its title.  currentAlbum is an index, 0 for
\* null.
Request(kind, key, data) == [kind |-> kind, key |-> key, data |-> data]

\* IndexedDB runs the open requests of a database in the order they were
\* made, and the transactions on one object store in the order they were
\* created: a request completes once none made before it stands in its way.
InItsWay(earlier, later) ==
    \/ earlier.kind = "open" /\ later.kind = "open"
    \/ earlier.kind # "open" /\ later.kind # "open" /\ earlier.key = later.key
RequestCompletes(i) ==
    /\ i \in DOMAIN portfolio.requests
    /\ \A j \in 1..(i - 1) :
           ~InItsWay(portfolio.requests[j], portfolio.requests[i])

\* saveToStorage(key, this[key]) up to its first await: IndexedDBStorage.save
\* either waits for an open of its own (this.db not set yet) or creates the
\* transaction and puts the array, which is copied as it is then.
saveToStorage(p, key) ==
    [p EXCEPT !.requests =
        Append(@, IF p.db THEN Request("put", key, p[key])
                  ELSE Request("open", key, << >>)),
              !.saves = @ + 1,
              !.early = @ \/ p.pc # "ready"]
CanSave == Len(portfolio.requests) < MaxPending /\ portfolio.saves < MaxSaves
PortfolioStep(p) ==
    /\ portfolio' = p
    /\ UNCHANGED <<base, boot, compress, isAdminMode>>

\* DOMContentLoaded: new PortfolioApp(), whose init installs the listeners
\* and awaits storage.init(); saved is what an earlier visit left.
PortfolioApp_new(savedAlbums) ==
    /\ portfolio.pc = "none"
    /\ PortfolioStep([NoPortfolio EXCEPT !.pc = "open",
                         !.saved.albums = savedAlbums,
                         !.requests = <<Request("open", "init", << >>)>>])

\* The open of PortfolioApp.init succeeds: loadData starts with
\* storage.load('albums').
IndexedDBStorage_init_success(i) ==
    /\ RequestCompletes(i)
    /\ portfolio.requests[i] = Request("open", "init", << >>)
    /\ PortfolioStep([portfolio EXCEPT !.db = TRUE, !.pc = "loadAlbums",
           !.requests = Append(Remove(@, i), Request("get", "albums", << >>))])

\* The open a save was waiting for succeeds: the save goes on to put the
\* array it was given, as that array is now.
IndexedDBStorage_save_opened(i) ==
    /\ RequestCompletes(i)
    /\ portfolio.requests[i].kind = "open"
    /\ portfolio.requests[i].key # "init"
    /\ LET key == portfolio.requests[i].key
           given == IF portfolio.pc = "ready" THEN portfolio.old[key]
                    ELSE portfolio[key]
       IN  PortfolioStep([portfolio EXCEPT !.db = TRUE,
               !.requests = Append(Remove(@, i), Request("put", key, given))])

\* loadData: the two loads, then `this.albums = loadedAlbums || []` and
\* `this.essays = loadedEssays || []`.
IndexedDBStorage_load_albums(i) ==
    /\ RequestCompletes(i)
    /\ portfolio.requests[i] = Request("get", "albums", << >>)
    /\ PortfolioStep([portfolio EXCEPT !.pc = "loadEssays",
           !.loaded = portfolio.saved.albums,
           !.requests = Append(Remove(@, i), Request("get", "essays", << >>))])
IndexedDBStorage_load_essays(i) ==
    /\ RequestCompletes(i)
    /\ portfolio.requests[i] = Request("get", "essays", << >>)
    /\ PortfolioStep([portfolio EXCEPT !.pc = "ready",
           !.old = [albums |-> portfolio.albums, essays |-> portfolio.essays],
           !.albums = portfolio.loaded,
           !.essays = portfolio.saved.essays,
           !.loaded = << >>,
           !.requests = Remove(@, i)])

\* The put of a save succeeds, or fails and saveToStorage alerts.
IndexedDBStorage_save_done(i, ok) ==
    /\ RequestCompletes(i)
    /\ portfolio.requests[i].kind = "put"
    /\ PortfolioStep([portfolio EXCEPT
           !.saved[portfolio.requests[i].key] =
               IF ok THEN portfolio.requests[i].data ELSE @,
           !.failed = @ \/ ~ok,
           !.requests = Remove(@, i)])

PortfolioApp_createAlbum(name) ==
    /\ portfolio.pc # "none" /\ CanSave
    /\ Len(portfolio.albums) < MaxAlbums
    /\ PortfolioStep(saveToStorage(
           [portfolio EXCEPT !.albums = Append(@, [name |-> name, photos |-> 0])],
           "albums"))

PortfolioApp_reorderAlbums(fromIndex, toIndex) ==
    /\ portfolio.pc # "none" /\ CanSave
    /\ fromIndex \in DOMAIN portfolio.albums /\ toIndex \in DOMAIN portfolio.albums
    /\ fromIndex # toIndex
    /\ LET rest == Remove(portfolio.albums, fromIndex)
       IN  PortfolioStep(saveToStorage(
               [portfolio EXCEPT !.albums =
                   SubSeq(rest, 1, toIndex - 1) \o <<portfolio.albums[fromIndex]>>
                       \o SubSeq(rest, toIndex, Len(rest))],
               "albums"))

\* finishRenameAlbum does not await its save.
finishRenameAlbum(index, newName) ==
    /\ portfolio.pc # "none" /\ CanSave
    /\ index \in DOMAIN portfolio.albums
    /\ PortfolioStep(saveToStorage(
           [portfolio EXCEPT !.albums[index].name = newName], "albums"))

\* deleteAlbum, confirmed; it does not await its save.
PortfolioApp_deleteAlbum(index) ==
    /\ portfolio.pc # "none" /\ CanSave
    /\ index \in DOMAIN portfolio.albums
    /\ PortfolioStep(saveToStorage(
           [portfolio EXCEPT !.albums = Remove(@, index),
               !.currentAlbum = IF @ = index THEN 0
                                ELSE IF @ # 0 /\ @ > index THEN @ - 1 ELSE @],
           "albums"))

openAlbum(index) ==
    /\ portfolio.pc # "none"
    /\ index \in DOMAIN portfolio.albums
    /\ portfolio.currentAlbum # index
    /\ PortfolioStep([portfolio EXCEPT !.currentAlbum = index])
showAlbumsView ==
    /\ portfolio.pc # "none"
    /\ portfolio.currentAlbum # 0
    /\ PortfolioStep([portfolio EXCEPT !.currentAlbum = 0])

\* removePhoto, confirmed, of a photo the gallery shows.
PortfolioApp_removePhoto(index) ==
    /\ portfolio.pc # "none" /\ CanSave
    /\ portfolio.currentAlbum \in DOMAIN portfolio.albums
    /\ index \in 1..portfolio.albums[portfolio.currentAlbum].photos
    /\ PortfolioStep(saveToStorage(
           [portfolio EXCEPT !.albums[portfolio.currentAlbum].photos = @ - 1],
           "albums"))

\* handlePhotoUpload with files chosen while an album is shown: each file is
\* awaited from compressImage and pushed; the save follows the last push.
handlePhotoUpload(files) ==
    /\ portfolio.pc # "none"
    /\ files > 0 /\ portfolio.currentAlbum # 0
    /\ portfolio.upload.left = 0
    /\ PortfolioStep([portfolio EXCEPT !.upload = [left |-> files, pushed |-> 0]])
\* compressImage settles: resolved, the photo is pushed on
\* this.albums[this.currentAlbum]; rejected (img.onerror), or with no such
\* album to push on, the catch ends the upload and nothing is saved.
PortfolioApp_compressImage(resolved) ==
    /\ portfolio.upload.left > 0
    /\ IF resolved /\ portfolio.currentAlbum \in DOMAIN portfolio.albums
       THEN /\ portfolio.albums[portfolio.currentAlbum].photos < MaxPhotos
            /\ portfolio.upload.left = 1 => CanSave
            /\ LET pushed == [portfolio EXCEPT
                                 !.albums[portfolio.currentAlbum].photos = @ + 1,
                                 !.upload.left = @ - 1,
                                 !.upload.pushed = @ + 1]
               IN  PortfolioStep(IF portfolio.upload.left = 1
                                 THEN saveToStorage(
                                          [pushed EXCEPT !.upload.pushed = 0],
                                          "albums")
                                 ELSE pushed)
       ELSE PortfolioStep([portfolio EXCEPT
                !.upload = [left |-> 0, pushed |-> 0],
                !.early = @ \/ portfolio.pc # "ready",
                !.abandoned = @ \/ portfolio.upload.pushed > 0])

\* handleEssayUpload: the FileReader has read the PDF.
handleEssayUpload(title) ==
    /\ portfolio.pc # "none" /\ CanSave
    /\ Len(portfolio.essays) < MaxEssays
    /\ PortfolioStep(saveToStorage(
           [portfolio EXCEPT !.essays = Append(@, [title |-> title])], "essays"))
\* updateEssayTitle does not await its save.
updateEssayTitle(index, title) ==
    /\ portfolio.pc # "none" /\ CanSave
    /\ index \in DOMAIN portfolio.essays
    /\ PortfolioStep(saveToStorage(
           [portfolio EXCEPT !.essays[index].title = title], "essays"))

\* ------------------------------------------------------------------ C40
\* The PortfolioApp page: the app is constructed on what an earlier visit
\* saved, and the user's handlers run beside the requests in flight.
SavedBefore == {<< >>, <<[name |-> "a", photos |-> 0]>>}

NextPortfolio ==
    \/ \E savedAlbums \in SavedBefore : PortfolioApp_new(savedAlbums)
    \/ \E i \in 1..MaxPending : IndexedDBStorage_init_success(i)
    \/ \E i \in 1..MaxPending : IndexedDBStorage_save_opened(i)
    \/ \E i \in 1..MaxPending : IndexedDBStorage_load_albums(i)
    \/ \E i \in 1..MaxPending : IndexedDBStorage_load_essays(i)
    \/ \E i \in 1..MaxPending, ok \in BOOLEAN : IndexedDBStorage_save_done(i, ok)
    \/ \E name \in {"a"} : PortfolioApp_createAlbum(name)
    \/ \E fromIndex, toIndex \in 1..MaxAlbums :
           PortfolioApp_reorderAlbums(fromIndex, toIndex)
    \/ \E index \in 1..MaxAlbums, newName \in {"b"} : finishRenameAlbum(index, newName)
    \/ \E index \in 1..MaxAlbums : PortfolioApp_deleteAlbum(index)
    \/ \E index \in 1..MaxAlbums : openAlbum(index)
    \/ showAlbumsView
    \/ \E index \in 1..MaxPhotos : PortfolioApp_removePhoto(index)
    \/ \E files \in 1..MaxFiles : handlePhotoUpload(files)
    \/ \E resolved \in BOOLEAN : PortfolioApp_compressImage(resolved)
    \/ \E title \in {"a"} : handleEssayUpload(title)
    \/ \E index \in 1..MaxEssays, title \in {"b"} : updateEssayTitle(index, title)

SpecPortfolio == Init /\ [][NextPortfolio]_vars

\* Every save that was started has completed, none with an error, and no
\* handler is in the middle of its work.
AllSavesCompleted ==
    /\ portfolio.pc = "ready"
    /\ portfolio.requests = << >>
    /\ portfolio.upload.left = 0
    /\ ~portfolio.failed
PersistedIsInMemory ==
    /\ portfolio.saved.albums = portfolio.albums
    /\ portfolio.saved.essays = portfolio.essays

\* Saves started once loadData is done, by handlers that ran to their end,
\* land in the order they were started: what is persisted is what is in
\* memory.
SavesLandInOrder ==
    (AllSavesCompleted /\ ~portfolio.early /\ ~portfolio.abandoned)
        => PersistedIsInMemory
SavesLandInOrder_Seen ==
    /\ AllSavesCompleted /\ ~portfolio.early /\ ~portfolio.abandoned
    /\ portfolio.albums # << >>
    /\ portfolio.albums[1].name = "b" /\ portfolio.albums[1].photos = 1
    /\ portfolio.essays # << >>

\* C40: once every pending save of the PortfolioApp has completed without
\* error, the persisted 'albums' and 'essays' values equal the albums and
\* essays arrays in memory, whatever the interleaving of the awaited and the
\* un-awaited saves.
C40_PersistedEqualsInMemory == AllSavesCompleted => PersistedIsInMemory
\* An upload that pushed a photo and then gave up has ended and nothing is
\* pending.
C40_Witness == AllSavesCompleted /\ portfolio.abandoned /\ ~portfolio.early

============================================================================
